---- MODULE Spec2Model ----
(***************************************************************************)
(* A model of mccode-antlr: the particle flow graph of an instrument       *)
(* (instr/flow.py), the component list of an Instr and its edits           *)
(* (instr/instr.py), jump resolution (translators/target.py) and the       *)
(* process-level component cache (reader/reader.py).                       *)
(*                                                                         *)
(* Python indices are kept 0-based, as the program stores them             *)
(* (Jump.absolute_target, JumpEdge.absolute_target); At(s, i) reads the    *)
(* element the program calls s[i].                                         *)
(***************************************************************************)
EXTENDS Integers, Sequences, FiniteSets, TLC

VARIABLES
  components,   \* Instr.components: the ordered tuple of Instance
  flow_edges,   \* Instr.flow_edges: the stored tuple of FlowEdgeRecord
  graph,        \* the value of the last build_particle_flow_graph(instr), or NoGraph
  io,           \* the value of the last build_instance_io(instr), or NoIO
  op,           \* the last operation applied to the instrument
  result,       \* its outcome: "ok" or the error it raised
  store,        \* _ComponentCache._store: path -> (mtime_ns, Comp)
  fs,           \* the .comp source file of each path: exists, mtime, content
  sidecar,      \* the .comp.json file next to it: exists, mtime, payload
  now,          \* the clock that stamps file writes
  got,          \* the path of the last get and the Comp it returned
  overrides,    \* _ComponentCache._source_overrides: name -> source text
  readers,      \* Reader.components of each Reader: name -> Comp
  threads,      \* each thread's place in Reader.add_component and its locals
  registries,   \* Reader.registries: the ordered search path
  parameters,   \* Instr.parameters, in order
  parts,        \* the two Instr objects the last split or mcpl_split returned
  component,    \* a Comp under construction: its define, setting and output
  fmt,          \* a _Formatter at work: token stream, output, _last_comment_idx
  block,        \* a %{ ... %} block on its way through format_source
  expr,         \* the operands handed to an operator of Expr and what it returned
  search,       \* a SEARCH statement under InstrVisitor: its literal, the run, the calls made
  listener,     \* a ReaderErrorListener: the source, the error reported, what was logged
  header,       \* the hidden tokens before DEFINE COMPONENT under the formatter
  groups,       \* Instr.groups: the (index, instance) pairs of each group name
  ok_to_skip,   \* TargetVisitor.ok_to_skip: one flag per component, or none yet
  instance      \* an Instance under set_parameter: its parameters, in order

vars == <<components, flow_edges, graph, io, op, result, store, fs, sidecar, now, got,
          overrides, readers, threads, registries,
          parameters, parts, component, fmt,
          block, expr, search, listener, header, groups, ok_to_skip, instance>>

instrVars == <<components, flow_edges, graph, io, op, result>>
cacheVars == <<store, fs, sidecar, now, got>>
toolVars == <<block, expr, search, listener, header, groups, ok_to_skip, instance>>
restVars == <<parameters, parts, component, fmt, toolVars>>
laterVars == <<threads, registries, restVars>>
moreVars == <<overrides, readers, laterVars>>

\* the frame of each tool: all but op, result and the tool itself
quietVars == <<components, flow_edges, graph, io, store, fs, sidecar, now, got,
               overrides, readers, threads, registries, parameters, parts, component,
               fmt>>
blockOthers == <<expr, search, listener, header, groups, ok_to_skip, instance>>
blockFrame == <<quietVars, blockOthers>>
exprOthers == <<block, search, listener, header, groups, ok_to_skip, instance>>
exprFrame == <<quietVars, exprOthers>>
searchOthers == <<block, expr, listener, header, groups, ok_to_skip, instance>>
searchFrame == <<quietVars, searchOthers>>
listenerOthers == <<block, expr, search, header, groups, ok_to_skip, instance>>
listenerFrame == <<quietVars, listenerOthers>>
headerOthers == <<block, expr, search, listener, groups, ok_to_skip, instance>>
headerFrame == <<quietVars, headerOthers>>
groupsOthers == <<block, expr, search, listener, header, ok_to_skip, instance>>
groupsFrame == <<quietVars, groupsOthers>>
ok_to_skipOthers == <<block, expr, search, listener, header, groups, instance>>
ok_to_skipFrame == <<quietVars, ok_to_skipOthers>>
instanceOthers == <<block, expr, search, listener, header, groups, ok_to_skip>>
instanceFrame == <<quietVars, instanceOthers>>

----------------------------------------------------------------------------
(* Bounds of the model *)

\* the longest component list
MaxComponents == 3

\* the most JUMPs an instrument holds
MaxJumps == 1

\* the last tick of the clock behind st_mtime_ns
MaxMtime == 2

----------------------------------------------------------------------------
(* Python values *)

None == "<None>"

At(s, i) == s[i + 1]

Range(s) == {s[i] : i \in 1..Len(s)}

RECURSIVE SortedSeq(_)
SortedSeq(S) ==
  IF S = {} THEN <<>>
  ELSE LET m == CHOOSE x \in S : \A y \in S : x <= y
       IN  <<m>> \o SortedSeq(S \ {m})

\* `x or ''` for an Optional[str]
OrEmpty(x) == IF x = None \/ x = "" THEN "" ELSE x

\* truthiness of an Optional[str]
Truthy(x) == x # None /\ x # ""

----------------------------------------------------------------------------
(* Instance, Jump and the edge payloads *)

Jump(target, relative_target, iterate, condition) ==
  [target |-> target, relative_target |-> relative_target, iterate |-> iterate,
   condition |-> condition, absolute_target |-> -1]

\* the Instance an AT or ROTATED clause is relative to: own says that the
\* object is an element of the component list the referring instance is in
Ref(name, own) == [name |-> name, own |-> own]

\* ABSOLUTE
NoRef == Ref(None, FALSE)

Instance(name, group, when, jump) ==
  [name |-> name, group |-> group, when |-> when, jump |-> jump,
   at_relative |-> NoRef, rotate_relative |-> NoRef]

SequentialEdge(when) == [type |-> "sequential", when |-> when]

GroupEdge(group_name, kind) ==
  [type |-> "group", group_name |-> group_name, kind |-> kind]

JumpEdge(condition, iterate, absolute_target) ==
  [type |-> "jump", condition |-> condition, iterate |-> iterate,
   absolute_target |-> absolute_target]

FlowEdgeRecord(src, dst, edge) == [src |-> src, dst |-> dst, edge |-> edge]

----------------------------------------------------------------------------
(* _build_flow_edge_records *)

\* groups: name -> ordered [(index, Instance)], here the ordered indices
GroupMembers(comps, g) ==
  SortedSeq({i \in 0..(Len(comps) - 1) : At(comps, i).group = g})

\* the keys of the groups dict, in insertion order (first occurrence)
RECURSIVE GroupKeysFrom(_, _, _)
GroupKeysFrom(comps, idx, seen) ==
  IF idx >= Len(comps) THEN <<>>
  ELSE LET g == At(comps, idx).group
       IN  IF g # None /\ g \notin seen
           THEN <<g>> \o GroupKeysFrom(comps, idx + 1, seen \cup {g})
           ELSE GroupKeysFrom(comps, idx + 1, seen)

GroupKeys(comps) == GroupKeysFrom(comps, 0, {})

same_group(src, dst) == src.group # None /\ src.group = dst.group

\* variant: the exit test without the comparison to the next component's group
src_exits_group_dst_ungrouped(src, dst) == src.group # None /\ dst.group = None

src_exits_group(src, dst) == src.group # None /\ src.group # OrEmpty(dst.group)

\* variant: the loop turn that labels the edge with the WHEN of its source
AdjacentRecord_src_when(src, dst) ==
  IF same_group(src, dst)
  THEN <<FlowEdgeRecord(src.name, dst.name, GroupEdge(src.group, "TRY_NEXT"))>>
  ELSE IF src_exits_group(src, dst)
       THEN <<>>
       ELSE <<FlowEdgeRecord(src.name, dst.name, SequentialEdge(src.when))>>

\* one turn of the loop over adjacent pairs
AdjacentRecord(src, dst) ==
  IF same_group(src, dst)
  THEN <<FlowEdgeRecord(src.name, dst.name, GroupEdge(src.group, "TRY_NEXT"))>>
  ELSE IF src_exits_group(src, dst)
       THEN <<>>
       ELSE <<FlowEdgeRecord(src.name, dst.name, SequentialEdge(dst.when))>>

RECURSIVE AdjacentRecords(_, _)
AdjacentRecords(comps, idx) ==
  IF idx >= Len(comps) - 1 THEN <<>>
  ELSE AdjacentRecord(At(comps, idx), At(comps, idx + 1))
         \o AdjacentRecords(comps, idx + 1)

RECURSIVE ExitIndex(_, _, _)
ExitIndex(comps, group_name, exit_idx) ==
  IF exit_idx < Len(comps) /\ At(comps, exit_idx).group = group_name
  THEN ExitIndex(comps, group_name, exit_idx + 1)
  ELSE exit_idx

RECURSIVE ScatterExits(_, _, _, _)
ScatterExits(comps, members, exit_name, group_name) ==
  IF members = <<>> THEN <<>>
  ELSE <<FlowEdgeRecord(At(comps, Head(members)).name, exit_name,
                        GroupEdge(group_name, "SCATTER_EXIT"))>>
         \o ScatterExits(comps, Tail(members), exit_name, group_name)

\* variant: a SCATTER_EXIT edge from the last member only
GroupExitRecords_last_only(comps, group_name) ==
  LET members  == GroupMembers(comps, group_name)
      last_idx == members[Len(members)]
      exit_idx == ExitIndex(comps, group_name, last_idx + 1)
  IN  IF exit_idx < Len(comps)
      THEN ScatterExits(comps, <<last_idx>>, At(comps, exit_idx).name, group_name)
             \o <<FlowEdgeRecord(At(comps, last_idx).name, At(comps, exit_idx).name,
                                 GroupEdge(group_name, "PASS_THROUGH"))>>
      ELSE <<>>

GroupExitRecords(comps, group_name) ==
  LET members  == GroupMembers(comps, group_name)
      last_idx == members[Len(members)]
      exit_idx == ExitIndex(comps, group_name, last_idx + 1)
  IN  IF exit_idx < Len(comps)
      THEN ScatterExits(comps, members, At(comps, exit_idx).name, group_name)
             \o <<FlowEdgeRecord(At(comps, last_idx).name, At(comps, exit_idx).name,
                                 GroupEdge(group_name, "PASS_THROUGH"))>>
      ELSE <<>>

RECURSIVE AllGroupExitRecords(_, _)
AllGroupExitRecords(comps, keys) ==
  IF keys = <<>> THEN <<>>
  ELSE GroupExitRecords(comps, Head(keys)) \o AllGroupExitRecords(comps, Tail(keys))

\* name_to_idx.get(name, -1): a dict comprehension keeps the last index of a name
NameToIdx(comps, name) ==
  LET idxs == {i \in 0..(Len(comps) - 1) : At(comps, i).name = name}
  IN  IF idxs = {} THEN -1 ELSE CHOOSE i \in idxs : \A j \in idxs : j <= i

\* variant: the index is taken from absolute_target alone
JumpTargetIdx_stored(comps, jmp) == jmp.absolute_target

\* the index a jump's edge is drawn to
JumpTargetIdx(comps, jmp) ==
  IF jmp.absolute_target < 0 THEN NameToIdx(comps, jmp.target)
  ELSE jmp.absolute_target

JumpRecord(comps, inst, jmp) ==
  LET target_idx == JumpTargetIdx(comps, jmp)
  IN  IF 0 <= target_idx /\ target_idx < Len(comps)
      THEN <<FlowEdgeRecord(inst.name, At(comps, target_idx).name,
                            JumpEdge(jmp.condition, jmp.iterate, target_idx))>>
      ELSE <<>>

RECURSIVE InstanceJumpRecords(_, _, _)
InstanceJumpRecords(comps, inst, k) ==
  IF k > Len(inst.jump) THEN <<>>
  ELSE JumpRecord(comps, inst, inst.jump[k]) \o InstanceJumpRecords(comps, inst, k + 1)

RECURSIVE JumpRecords(_, _)
JumpRecords(comps, idx) ==
  IF idx >= Len(comps) THEN <<>>
  ELSE InstanceJumpRecords(comps, At(comps, idx), 1) \o JumpRecords(comps, idx + 1)

build_flow_edge_records(comps) ==
  IF Len(comps) = 0 THEN <<>>
  ELSE AdjacentRecords(comps, 0)
         \o AllGroupExitRecords(comps, GroupKeys(comps))
         \o JumpRecords(comps, 0)

----------------------------------------------------------------------------
(* flow_graph_from_records and build_particle_flow_graph *)

\* G.add_node(inst.name, instance=inst): a later instance of a name replaces it
NodeInstance(comps, name) ==
  LET idx == NameToIdx(comps, name)
  IN  IF idx < 0 THEN [name |-> None] ELSE At(comps, idx)

\* G.add_edge(src, dst) also creates the nodes an edge names, without attributes
flow_graph_from_records(comps, edges) ==
  LET named == {comps[i].name : i \in 1..Len(comps)}
      ends  == {edges[k].src : k \in 1..Len(edges)} \cup {edges[k].dst : k \in 1..Len(edges)}
  IN  [nodes |-> [x \in named \cup ends |-> NodeInstance(comps, x)],
       edges |-> edges]

build_particle_flow_graph(comps) ==
  flow_graph_from_records(comps, build_flow_edge_records(comps))

NoGraph == [nodes |-> <<>>, edges |-> <<>>]

----------------------------------------------------------------------------
(* build_instance_io *)

\* InstanceIO(inputs, outputs); status tells a value from none yet and from a raise
InstanceIO(status, inputs, outputs) ==
  [status |-> status, inputs |-> inputs, outputs |-> outputs]

NoIO == InstanceIO("none", <<>>, <<>>)

\* variant: no edge is taken for a TRY_NEXT edge
IsTryNext_never(rec) == FALSE

IsTryNext(rec) == rec.edge.type = "group" /\ rec.edge.kind = "TRY_NEXT"

\* step 1: every edge but TRY_NEXT adds src to inputs[dst] and dst to outputs[src]
DirectIO(comps, edges) ==
  LET all_names == {comps[i].name : i \in 1..Len(comps)}
      direct    == {k \in 1..Len(edges) : ~IsTryNext(edges[k])}
  IN  [inputs  |-> [x \in all_names |-> {edges[k].src : k \in {j \in direct : edges[j].dst = x}}],
       outputs |-> [x \in all_names |-> {edges[k].dst : k \in {j \in direct : edges[j].src = x}}],
       error   |-> FALSE]

\* the keys of group_members, in insertion order; `if inst.group:` is truthiness
RECURSIVE IOGroupKeysFrom(_, _, _)
IOGroupKeysFrom(comps, idx, seen) ==
  IF idx >= Len(comps) THEN <<>>
  ELSE LET g == At(comps, idx).group
       IN  IF Truthy(g) /\ g \notin seen
           THEN <<g>> \o IOGroupKeysFrom(comps, idx + 1, seen \cup {g})
           ELSE IOGroupKeysFrom(comps, idx + 1, seen)

MemberNames(comps, g) ==
  LET members == GroupMembers(comps, g)
  IN  [k \in 1..Len(members) |-> At(comps, members[k]).name]

\* variant: step 2 without the update of the predecessors' outputs
PropagateGroup_inputs_only(st, members) ==
  LET predecessors == st.inputs[members[1]]
      rest         == Range(Tail(members))
  IN  [inputs  |-> [x \in DOMAIN st.inputs |->
                      IF x \in rest THEN st.inputs[x] \cup predecessors ELSE st.inputs[x]],
       outputs |-> st.outputs,
       error   |-> \E pred \in predecessors : pred \notin DOMAIN st.outputs]

\* step 2, one group: outputs[pred] raises KeyError for a pred that is no instance
PropagateGroup(st, members) ==
  LET first        == members[1]
      predecessors == st.inputs[first]
      rest         == Range(Tail(members))
  IN  [inputs  |-> [x \in DOMAIN st.inputs |->
                      IF x \in rest THEN st.inputs[x] \cup predecessors ELSE st.inputs[x]],
       outputs |-> [x \in DOMAIN st.outputs |->
                      IF x \in predecessors THEN st.outputs[x] \cup Range(members)
                      ELSE st.outputs[x]],
       error   |-> \E pred \in predecessors : pred \notin DOMAIN st.outputs]

RECURSIVE PropagateGroups(_, _, _)
PropagateGroups(comps, keys, st) ==
  IF keys = <<>> \/ st.error THEN st
  ELSE PropagateGroups(comps, Tail(keys), PropagateGroup(st, MemberNames(comps, Head(keys))))

build_instance_io(comps, edges) ==
  LET st == PropagateGroups(comps, IOGroupKeysFrom(comps, 0, {}), DirectIO(comps, edges))
  IN  IF st.error THEN InstanceIO("KeyError", <<>>, <<>>)
      ELSE InstanceIO("ok", st.inputs, st.outputs)

----------------------------------------------------------------------------
(* TargetVisitor.set_jump_absolute_targets *)

\* str.lower() on the jump targets that occur
Lower(s) == CASE s = "MYSELF" -> "myself"
              [] s = "PREVIOUS" -> "previous"
              [] s = "NEXT" -> "next"
              [] OTHER -> s

\* [i for i, c in enumerate(components) if jump.target == c.name][0]
FirstIndexOf(comps, name) ==
  LET idxs == {i \in 0..(Len(comps) - 1) : At(comps, i).name = name}
  IN  IF idxs = {} THEN -1 ELSE CHOOSE i \in idxs : \A j \in idxs : i <= j

\* one turn of the loop: the jump after it; [...][0] raises IndexError on no match
ResolveJump(comps, index, jump) ==
  IF jump.absolute_target > -1 THEN [raised |-> FALSE, jump |-> jump]
  ELSE IF jump.relative_target = 0 /\ Lower(jump.target) # "myself"
       THEN IF FirstIndexOf(comps, jump.target) < 0
            THEN [raised |-> TRUE, jump |-> jump]
            ELSE [raised |-> FALSE,
                  jump |-> [jump EXCEPT
                              !.absolute_target = FirstIndexOf(comps, jump.target),
                              !.relative_target = FirstIndexOf(comps, jump.target) - index]]
       ELSE [raised |-> FALSE,
             jump |-> [jump EXCEPT !.absolute_target = index + jump.relative_target]]

\* the (index, position) pairs of the jumps, in the order of the loop
RECURSIVE JumpPlaces(_, _)
JumpPlaces(comps, idx) ==
  IF idx >= Len(comps) THEN <<>>
  ELSE [k \in 1..Len(At(comps, idx).jump) |-> <<idx, k>>] \o JumpPlaces(comps, idx + 1)

\* the loop from place p on: the jumps are updated in place until one raises
RECURSIVE ResolveFrom(_, _, _)
ResolveFrom(comps, places, p) ==
  IF p > Len(places) THEN [components |-> comps, result |-> "ok"]
  ELSE LET index == places[p][1]
           k     == places[p][2]
           r     == ResolveJump(comps, index, At(comps, index).jump[k])
       IN  IF r.raised THEN [components |-> comps, result |-> "IndexError"]
           ELSE ResolveFrom([comps EXCEPT ![index + 1].jump[k] = r.jump], places, p + 1)

----------------------------------------------------------------------------
(* The instruments the model draws: what the parser hands to the program *)

InstanceNames == <<"a", "b", "c", "d", "e", "f">>

GroupNames == {"G", "H"}

WhenExprs == {None, "w"}

\* JUMP name | PREVIOUS | MYSELF | NEXT, as visitJump returns them
JumpMenu(n) ==
  {Jump(InstanceNames[i], 0, it, "cond") : i \in 1..(n + 1), it \in BOOLEAN}
    \cup {Jump("PREVIOUS", -1, it, "cond") : it \in BOOLEAN}
    \cup {Jump("MYSELF", 0, it, "cond") : it \in BOOLEAN}
    \cup {Jump("NEXT", 1, it, "cond") : it \in BOOLEAN}

\* the ways to hang at most k jumps on n instances
RECURSIVE JumpPlacements(_, _)
JumpPlacements(n, k) ==
  IF k = 0 \/ n = 0 THEN {[i \in 1..n |-> <<>>]}
  ELSE LET fewer == JumpPlacements(n, k - 1)
       IN  fewer \cup {[f EXCEPT ![i] = Append(f[i], j)] :
                         f \in fewer, i \in 1..n, j \in JumpMenu(n)}

\* instruments of up to MaxComponents instances: any GROUPs, and either any
\* WHENs or up to MaxJumps JUMPs (the builder reads the two independently)
ParsedComponents(comps) ==
  \E n \in 0..MaxComponents :
    \E g \in [1..n -> GroupNames \cup {None}] :
      \/ \E w \in [1..n -> WhenExprs] :
           comps = [i \in 1..n |-> Instance(InstanceNames[i], g[i], w[i], <<>>)]
      \/ \E j \in JumpPlacements(n, MaxJumps) :
           comps = [i \in 1..n |-> Instance(InstanceNames[i], g[i], None, j[i])]

----------------------------------------------------------------------------
(* The component cache: _ComponentCache and the files it reads *)

\* the absolute .comp paths the readers resolve
Paths == {"/lib/Arm.comp"}

\* the texts a .comp file may hold
Contents == {"v1", "v2"}

\* Comp.from_source(source): the Comp parsed from a text
Comp(source) == [parsed |-> source]

NoComp == [parsed |-> None]

NoFile == [exists |-> FALSE]

File(mtime, content) == [exists |-> TRUE, mtime |-> mtime, content |-> content]

\* a .comp.json file
JsonFile(mtime, payload) == [exists |-> TRUE, mtime |-> mtime, payload |-> payload]

NoEntry == [present |-> FALSE]

Entry(mtime, comp) == [present |-> TRUE, mtime |-> mtime, comp |-> comp]

\* to_json(comp): the bytes of the sidecar
to_json(comp) == [kind |-> "Comp", body |-> comp]

\* what a .comp.json may hold besides: bytes that do not decode, and the
\* JSON of an object that is no Comp
Corrupt == [kind |-> "corrupt"]

OtherJson == [kind |-> "Instr"]

Payloads == {to_json(Comp(c)) : c \in Contents} \cup {Corrupt, OtherJson}

\* from_json(bytes): raises on bytes that do not decode
from_json(bytes) ==
  IF bytes.kind = "corrupt" THEN [raised |-> TRUE, value |-> NoComp, is_comp |-> FALSE]
  ELSE IF bytes.kind = "Comp" THEN [raised |-> FALSE, value |-> bytes.body, is_comp |-> TRUE]
  ELSE [raised |-> FALSE, value |-> NoComp, is_comp |-> FALSE]

\* variant: level 1 returns whatever the store holds
MemoryHit_any_mtime(entry, comp_mtime) == entry.present

\* level 1: key in self._store and cached_mtime == comp_mtime
MemoryHit(entry, comp_mtime) == entry.present /\ entry.mtime = comp_mtime

\* variant: level 2 reads any sidecar that exists
SidecarFresh_any_mtime(json, comp_mtime) == json.exists

\* level 2: json_path.exists() and json_path.stat().st_mtime_ns >= comp_mtime
SidecarFresh(json, comp_mtime) == json.exists /\ json.mtime >= comp_mtime

\* _ComponentCache.get(path): the store after the call, the Comp returned
\* (NoComp for None) and the level that gave it
Get(st, files, jsons, path) ==
  IF ~files[path].exists THEN [store |-> st, comp |-> NoComp, layer |-> "none"]
  ELSE LET comp_mtime == files[path].mtime
           dropped    == [st EXCEPT ![path] = NoEntry]
           decoded    == from_json(jsons[path].payload)
       IN  IF MemoryHit(st[path], comp_mtime)
           THEN [store |-> st, comp |-> st[path].comp, layer |-> "memory"]
           ELSE IF SidecarFresh(jsons[path], comp_mtime)
                   /\ ~decoded.raised /\ decoded.is_comp
                THEN [store |-> [st EXCEPT ![path] = Entry(comp_mtime, decoded.value)],
                      comp  |-> decoded.value, layer |-> "sidecar"]
                ELSE [store |-> dropped, comp |-> NoComp, layer |-> "none"]

\* how json_path.write_bytes may end
WriteOutcomes == {"written", "failed", "truncated"}

\* _ComponentCache.put(path, comp) at time t: the store and the sidecars after
Put(st, files, jsons, path, comp, t, outcome) ==
  IF ~files[path].exists THEN [store |-> st, sidecar |-> jsons]
  ELSE [store   |-> [st EXCEPT ![path] = Entry(files[path].mtime, comp)],
        sidecar |-> CASE outcome = "written" ->
                           [jsons EXCEPT ![path] = JsonFile(t, to_json(comp))]
                      [] outcome = "truncated" ->
                           [jsons EXCEPT ![path] = JsonFile(t, Corrupt)]
                      [] OTHER -> jsons]

NoGet == [path |-> None, comp |-> NoComp]

\* the component names the readers are asked for, and the Readers
CompNames == {"Arm"}

Readers == {"r1", "r2"}

\* Registry.path(name, '.comp') resolved: the file a name is found at
PathOf(name) == "/lib/" \o name \o ".comp"

NameOf(path) == CHOOSE name \in CompNames : PathOf(name) = path

NoText == "<no text>"

\* a text that Comp.from_source does not parse
Unparsable == "syntax error"

\* Reader.contents(name, ext='.comp'): the override if there is one, else the
\* text of the file; "RuntimeError" when no registry knows the name
ReaderContents(ovr, files, name) ==
  IF ovr[name] # NoText THEN ovr[name]
  ELSE IF files[PathOf(name)].exists THEN files[PathOf(name)].content
  ELSE "RuntimeError"

\* Reader.add_component(name) past the name check: the store, the sidecars,
\* the Comp kept in self.components (NoComp when locate raised) and how it ended
AddComponent(st, files, jsons, ovr, name, t, outcome) ==
  LET path   == PathOf(name)
      r      == Get(st, files, jsons, path)
      parsed == Comp(ReaderContents(ovr, files, name))
      w      == Put(r.store, files, jsons, path, parsed, t, outcome)
  IN  IF ~files[path].exists
      THEN [store |-> st, sidecar |-> jsons, comp |-> NoComp, result |-> "RuntimeError"]
      ELSE IF r.comp # NoComp
           THEN [store |-> r.store, sidecar |-> jsons, comp |-> r.comp, result |-> r.layer]
           ELSE [store |-> w.store, sidecar |-> w.sidecar, comp |-> parsed,
                 result |-> "parsed"]

\* no source formatted yet
NoFormatter ==
  [phase |-> "idle", ts |-> <<>>, pos |-> 0, out |-> <<>>, last |-> -1,
   pass |-> 0, src |-> <<>>, first |-> <<>>]

\* an InstrumentParameter or ComponentParameter
Parameter(name, value) == [name |-> name, value |-> value]

\* common.parameters.parameter_name_present(parameters, name)
parameter_name_present(params, name) == \E i \in 1..Len(params) : params[i].name = name

\* Comp(): no parameter yet
NewComp == [define |-> <<>>, setting |-> <<>>, output |-> <<>>]

\* an Instr as split hands it back, and no split made yet
Part(comps, params) == [components |-> comps, parameters |-> params]

NoParts == [made |-> FALSE, first |-> Part(<<>>, <<>>), second |-> Part(<<>>, <<>>)]

\* the threads that resolve components, and a thread outside add_component
Threads == {"t1", "t2"}

\* no %{ ... %} block is being formatted
NoBlock == [phase |-> "none", text |-> <<>>, clang_fmt |-> FALSE, formatted |-> <<>>,
            calls |-> <<>>, out |-> <<>>]

\* no expression is being folded
NoExpr == [op |-> "none", left |-> <<>>, right |-> <<>>, value |-> <<>>]

\* no SEARCH statement is being visited
NoSearch == [phase |-> "none", literal |-> <<>>, stdout |-> <<>>, args |-> <<>>,
             shell |-> FALSE, calls |-> <<>>]

\* no syntax error has been reported
NoListener == [phase |-> "none", source |-> <<>>, line |-> 0, column |-> 0, log |-> <<>>]

\* no component header is being formatted
NoHeader == [phase |-> "none", hidden |-> <<>>, last |-> 0 - 1, out |-> <<>>]

\* Instr.groups of a new Instr: no group has a member
NoGroups == [determined |-> 0, copied |-> FALSE, members |-> [g \in GroupNames |-> <<>>]]

\* an Instance with no parameter set
NoInstance == [parameters |-> <<>>]

Idle == [pc |-> "idle", path |-> None, seen |-> NoFile, comp |-> NoComp]

\* every tool at rest but the one named, which the specification at hand sets
ToolInitBut(skip) ==
  /\ IF skip = "block" THEN TRUE ELSE block = NoBlock
  /\ IF skip = "expr" THEN TRUE ELSE expr = NoExpr
  /\ IF skip = "search" THEN TRUE ELSE search = NoSearch
  /\ IF skip = "listener" THEN TRUE ELSE listener = NoListener
  /\ IF skip = "header" THEN TRUE ELSE header = NoHeader
  /\ IF skip = "groups" THEN TRUE ELSE groups = NoGroups
  /\ IF skip = "ok_to_skip" THEN TRUE ELSE ok_to_skip = <<>>
  /\ IF skip = "instance" THEN TRUE ELSE instance = NoInstance

ToolInit == ToolInitBut("")

LaterInit ==
  /\ threads = [t \in Threads |-> Idle]
  /\ registries = <<>>
  /\ parameters = <<>>
  /\ parts = NoParts
  /\ component = NewComp
  /\ fmt = NoFormatter
  /\ ToolInit

MoreInit ==
  /\ overrides = [name \in CompNames |-> NoText]
  /\ readers = [r \in Readers |-> [name \in CompNames |-> NoComp]]
  /\ LaterInit

CacheInit ==
  /\ store = [p \in Paths |-> NoEntry]
  /\ fs = [p \in Paths |-> File(0, "v1")]
  /\ sidecar = [p \in Paths |-> NoFile]
  /\ now = 0
  /\ got = NoGet

\* an empty instrument, an empty cache and every tool at rest but the one named
QuietInit(skip) ==
  /\ components = <<>>
  /\ flow_edges = <<>>
  /\ graph = NoGraph
  /\ io = NoIO
  /\ CacheInit
  /\ overrides = [name \in CompNames |-> NoText]
  /\ readers = [r \in Readers |-> [name \in CompNames |-> NoComp]]
  /\ threads = [t \in Threads |-> Idle]
  /\ registries = <<>>
  /\ parameters = <<>>
  /\ parts = NoParts
  /\ component = NewComp
  /\ fmt = NoFormatter
  /\ ToolInitBut(skip)

----------------------------------------------------------------------------
(* Operations on the instrument *)

\* Instr.build_flow_graph: rebuild the edge list from scratch and store it
build_flow_graph ==
  /\ flow_edges' = build_flow_edge_records(components)
  /\ op' = "build_flow_graph"
  /\ result' = "ok"
  /\ UNCHANGED <<components, graph, io>>
  /\ UNCHANGED cacheVars
  /\ UNCHANGED moreVars

\* build_particle_flow_graph(instr): the graph is returned, nothing is stored
BuildParticleFlowGraph ==
  /\ graph' = build_particle_flow_graph(components)
  /\ op' = "build_particle_flow_graph"
  /\ result' = "ok"
  /\ UNCHANGED <<components, flow_edges, io>>
  /\ UNCHANGED cacheVars
  /\ UNCHANGED moreVars

\* build_instance_io(instr), read from instr.components and instr.flow_edges
BuildInstanceIO ==
  /\ io' = build_instance_io(components, flow_edges)
  /\ op' = "build_instance_io"
  /\ result' = io'.status
  /\ UNCHANGED <<components, flow_edges, graph>>
  /\ UNCHANGED cacheVars
  /\ UNCHANGED moreVars

\* TargetVisitor.set_jump_absolute_targets on the instrument
set_jump_absolute_targets ==
  LET r == ResolveFrom(components, JumpPlaces(components, 0), 1)
  IN  /\ components' = r.components
      /\ op' = "set_jump_absolute_targets"
      /\ result' = r.result
      /\ UNCHANGED <<flow_edges, graph, io>>
      /\ UNCHANGED cacheVars
      /\ UNCHANGED moreVars

----------------------------------------------------------------------------
(* Editing the component list *)

\* the name the caller gives a new instance: the first one not in use
FreshName(comps) ==
  InstanceNames[CHOOSE i \in 1..Len(InstanceNames) :
                  /\ InstanceNames[i] \notin {comps[k].name : k \in 1..Len(comps)}
                  /\ \A j \in 1..(i - 1) :
                       InstanceNames[j] \in {comps[k].name : k \in 1..Len(comps)}]

\* the names a call may give: a new one, or one in use (the last instance's)
CallNames(comps) ==
  {FreshName(comps)} \cup {comps[k].name : k \in {Len(comps)} \ {0}}

CountJumps(comps) ==
  Cardinality({<<i, k>> \in (1..Len(comps)) \X (1..MaxJumps) : k <= Len(comps[i].jump)})

\* the instruments edited here have GROUPs or JUMPs, not both
CallGroups(comps) ==
  IF CountJumps(comps) > 0 THEN {None} ELSE GroupNames \cup {None}

\* the JUMPs of an instance handed to add_component: none, or one to a named
\* instance or to PREVIOUS, while the instrument holds fewer than MaxJumps
AddedJumps(comps) ==
  IF CountJumps(comps) >= MaxJumps \/ \E k \in 1..Len(comps) : comps[k].group # None
  THEN {}
  ELSE {<<Jump(InstanceNames[i], 0, FALSE, "cond")>> : i \in 1..MaxComponents}
         \cup {<<Jump("PREVIOUS", -1, FALSE, "cond")>>}

\* the (group, jump) of an instance handed to add_component
AddedAttributes(comps) ==
  {<<g, <<>>>> : g \in CallGroups(comps)} \cup {<<None, j>> : j \in AddedJumps(comps)}

\* variant: the instance is appended without the check of its name
add_component_unchecked ==
  \E name \in CallNames(components) :
    /\ op' = "add_component"
    /\ \E attr \in AddedAttributes(components) :
         /\ Len(components) < MaxComponents
         /\ result' = "ok"
         /\ components' = Append(components, Instance(name, attr[1], None, attr[2]))
    /\ UNCHANGED <<flow_edges, graph, io>>
    /\ UNCHANGED cacheVars
    /\ UNCHANGED moreVars

\* Instr.add_component(a)
add_component ==
  \E name \in CallNames(components) :
    /\ op' = "add_component"
    /\ IF \E k \in 1..Len(components) : components[k].name = name
       THEN /\ result' = "RuntimeError"
            /\ UNCHANGED components
       ELSE \E attr \in AddedAttributes(components) :
              /\ Len(components) < MaxComponents
              /\ result' = "ok"
              /\ components' = Append(components, Instance(name, attr[1], None, attr[2]))
    /\ UNCHANGED <<flow_edges, graph, io>>
    /\ UNCHANGED cacheVars
    /\ UNCHANGED moreVars

\* Instr.make_instance(name, component, group=...), component given as a Comp
make_instance ==
  \E name \in CallNames(components) :
    /\ op' = "make_instance"
    /\ IF \E k \in 1..Len(components) : components[k].name = name
       THEN /\ result' = "RuntimeError"
            /\ UNCHANGED components
       ELSE \E group \in CallGroups(components) :
              /\ Len(components) < MaxComponents
              /\ result' = "ok"
              /\ components' = Append(components, Instance(name, group, None, <<>>))
    /\ UNCHANGED <<flow_edges, graph, io>>
    /\ UNCHANGED cacheVars
    /\ UNCHANGED moreVars

\* the index the new instance takes: that of `before`, or one past `after`
InsertIndex(comps, before, after) ==
  IF before # None THEN FirstIndexOf(comps, before)
  ELSE FirstIndexOf(comps, after) + 1

\* the new instance would part two adjacent members of one group
BreaksGroup(comps, idx, group) ==
  /\ 0 < idx /\ idx < Len(comps)
  /\ At(comps, idx - 1).group # None
  /\ At(comps, idx - 1).group = At(comps, idx).group
  /\ group # At(comps, idx - 1).group

\* every Jump.absolute_target back to -1
Invalidate(comps) ==
  [i \in 1..Len(comps) |->
     [comps[i] EXCEPT !.jump = [k \in 1..Len(@) |-> [@[k] EXCEPT !.absolute_target = -1]]]]

InsertAt(comps, idx, inst) ==
  SubSeq(comps, 1, idx) \o <<inst>> \o SubSeq(comps, idx + 1, Len(comps))

\* Instr.insert_component(name, type, before=, after=, group=): the instrument
\* after the call and how the call ended
InsertComponent(comps, edges, name, before, after, group) ==
  LET rejected(why) == [components |-> comps, flow_edges |-> edges, result |-> why]
      ref == IF before # None THEN before ELSE after
      idx == InsertIndex(comps, before, after)
      new == InsertAt(Invalidate(comps), idx, Instance(name, group, None, <<>>))
  IN  IF (before = None) = (after = None) THEN rejected("ValueError: before/after")
      ELSE IF \E k \in 1..Len(comps) : comps[k].name = name
           THEN rejected("ValueError: name")
      ELSE IF FirstIndexOf(comps, ref) < 0 THEN rejected("ValueError: reference")
      ELSE IF BreaksGroup(comps, idx, group) THEN rejected("ValueError: group")
      ELSE [components |-> new, flow_edges |-> build_flow_edge_records(new),
            result |-> "ok"]

\* what a call may pass for before= and after=: one of them, both, or neither
References(comps) == {"z"} \cup {comps[k].name : k \in 1..Len(comps)}

InsertCalls(comps) ==
  {<<ref, None>> : ref \in References(comps)}
    \cup {<<None, ref>> : ref \in References(comps)}
    \cup {<<None, None>>, <<"z", "z">>}

insert_component ==
  \E name \in CallNames(components), group \in CallGroups(components),
     call \in InsertCalls(components) :
    LET r == InsertComponent(components, flow_edges, name, call[1], call[2], group)
    IN  /\ r.result = "ok" => Len(components) < MaxComponents
        /\ components' = r.components
        /\ flow_edges' = r.flow_edges
        /\ op' = "insert_component"
        /\ result' = r.result
        /\ UNCHANGED <<graph, io>>
        /\ UNCHANGED cacheVars
        /\ UNCHANGED moreVars

----------------------------------------------------------------------------
(* Spec: an instrument built and edited call by call *)

Init ==
  /\ components = <<>>
  /\ flow_edges = <<>>
  /\ graph = NoGraph
  /\ io = NoIO
  /\ op = "Instr"
  /\ result = "ok"
  /\ CacheInit
  /\ MoreInit

Next ==
  \/ add_component
  \/ make_instance
  \/ insert_component
  \/ build_flow_graph
  \/ set_jump_absolute_targets

Spec == Init /\ [][Next]_vars

----------------------------------------------------------------------------
(* SpecFlow: the flow-graph functions applied to every parsed instrument *)

InitFlow ==
  /\ ParsedComponents(components)
  /\ flow_edges = <<>>
  /\ graph = NoGraph
  /\ io = NoIO
  /\ op = "parse"
  /\ result = "ok"
  /\ CacheInit
  /\ MoreInit

NextFlow ==
  \/ op \in {"parse", "set_jump_absolute_targets"} /\ build_flow_graph
  \/ op = "build_flow_graph" /\ BuildInstanceIO
  \/ op = "parse" /\ set_jump_absolute_targets
  \/ op = "parse" /\ BuildParticleFlowGraph

SpecFlow == InitFlow /\ [][NextFlow]_vars

----------------------------------------------------------------------------
(* SpecCache: the component cache, its callers and the files under it *)

instrData == <<components, flow_edges, graph, io>>

\* time passes
Tick ==
  /\ now < MaxMtime
  /\ now' = now + 1
  /\ UNCHANGED <<store, fs, sidecar, got, op, result>>
  /\ UNCHANGED instrData
  /\ UNCHANGED moreVars

\* a .comp file is written, now or with an earlier timestamp, or removed
WriteSource ==
  \E p \in Paths :
    /\ \/ \E c \in Contents, m \in 0..now : fs' = [fs EXCEPT ![p] = File(m, c)]
       \/ fs[p].exists /\ fs' = [fs EXCEPT ![p] = NoFile]
    /\ op' = "write source"
    /\ result' = "ok"
    /\ UNCHANGED <<store, sidecar, now, got>>
    /\ UNCHANGED instrData
    /\ UNCHANGED moreVars

\* a .comp.json file is written by another process, damaged, or removed
WriteSidecar ==
  \E p \in Paths :
    /\ \/ \E bytes \in Payloads, m \in 0..now :
            sidecar' = [sidecar EXCEPT ![p] = JsonFile(m, bytes)]
       \/ sidecar[p].exists /\ sidecar' = [sidecar EXCEPT ![p] = NoFile]
    /\ op' = "write sidecar"
    /\ result' = "ok"
    /\ UNCHANGED <<store, fs, now, got>>
    /\ UNCHANGED instrData
    /\ UNCHANGED moreVars

\* component_cache.get(path)
get ==
  \E p \in Paths :
    LET r == Get(store, fs, sidecar, p)
    IN  /\ store' = r.store
        /\ got' = [path |-> p, comp |-> r.comp]
        /\ op' = "get"
        /\ result' = r.layer
        /\ UNCHANGED <<fs, sidecar, now>>
        /\ UNCHANGED instrData
        /\ UNCHANGED moreVars

\* Reader.add_component(name) on a reader that does not hold the name: locate
\* the file, ask the cache, and on a miss parse the file and put the Comp
Reader_add_component ==
  \E p \in Paths, outcome \in WriteOutcomes :
    LET r      == Get(store, fs, sidecar, p)
        parsed == Comp(ReaderContents(overrides, fs, NameOf(p)))
        w      == Put(r.store, fs, sidecar, p, parsed, now, outcome)
    IN  /\ op' = "Reader.add_component"
        /\ IF ~fs[p].exists
           THEN /\ result' = "RuntimeError"
                /\ UNCHANGED <<store, sidecar, got>>
           ELSE IF r.comp # NoComp
                THEN /\ result' = r.layer
                     /\ store' = r.store
                     /\ got' = [path |-> p, comp |-> r.comp]
                     /\ UNCHANGED sidecar
                ELSE /\ result' = "parsed"
                     /\ store' = w.store
                     /\ sidecar' = w.sidecar
                     /\ got' = [path |-> p, comp |-> NoComp]
        /\ UNCHANGED <<fs, now>>
        /\ UNCHANGED instrData
        /\ UNCHANGED moreVars

\* component_cache.evict(path)
evict ==
  \E p \in Paths :
    /\ store' = [store EXCEPT ![p] = NoEntry]
    /\ op' = "evict"
    /\ result' = "ok"
    /\ UNCHANGED <<fs, sidecar, now, got>>
    /\ UNCHANGED instrData
    /\ UNCHANGED moreVars

\* component_cache.clear()
clear ==
  /\ store' = [p \in Paths |-> NoEntry]
  /\ op' = "clear"
  /\ result' = "ok"
  /\ UNCHANGED <<fs, sidecar, now, got>>
  /\ UNCHANGED instrData
  /\ UNCHANGED moreVars

InitCache ==
  /\ components = <<>>
  /\ flow_edges = <<>>
  /\ graph = NoGraph
  /\ io = NoIO
  /\ op = "Reader"
  /\ result = "ok"
  /\ CacheInit
  /\ MoreInit

NextCache ==
  \/ Tick
  \/ WriteSource
  \/ WriteSidecar
  \/ get
  \/ Reader_add_component
  \/ evict
  \/ clear

SpecCache == InitCache /\ [][NextCache]_vars

----------------------------------------------------------------------------
(* SpecReader: Readers, source overrides and the cache under them *)

readerFrame == <<components, flow_edges, graph, io, laterVars>>

\* Reader.inject_source(name, source) on reader r
inject_source ==
  \E r \in Readers, name \in CompNames, source \in Contents \cup {Unparsable} :
    /\ op' = "inject_source"
    /\ IF source = Unparsable
       THEN /\ result' = "ignored"
            /\ UNCHANGED <<overrides, readers>>
       ELSE /\ result' = "ok"
            /\ overrides' = [overrides EXCEPT ![name] = source]
            /\ readers' = [readers EXCEPT ![r][name] = Comp(source)]
    /\ UNCHANGED <<store, fs, sidecar, now, got>>
    /\ UNCHANGED readerFrame

\* Reader.evict(name) on reader r
Reader_evict ==
  \E r \in Readers, name \in CompNames :
    /\ op' = "Reader.evict"
    /\ result' = "ok"
    /\ readers' = [readers EXCEPT ![r][name] = NoComp]
    /\ overrides' = [overrides EXCEPT ![name] = NoText]
    /\ UNCHANGED <<store, fs, sidecar, now, got>>
    /\ UNCHANGED readerFrame

\* component_cache.clear_override(name)
clear_override ==
  \E name \in CompNames :
    /\ op' = "clear_override"
    /\ result' = "ok"
    /\ overrides' = [overrides EXCEPT ![name] = NoText]
    /\ UNCHANGED <<store, fs, sidecar, now, got, readers>>
    /\ UNCHANGED readerFrame

\* Reader.get_component(name) on reader r, add_component included
get_component ==
  \E r \in Readers, name \in CompNames, outcome \in WriteOutcomes :
    LET a == AddComponent(store, fs, sidecar, overrides, name, now, outcome)
    IN  /\ op' = "get_component"
        /\ IF readers[r][name] # NoComp
           THEN /\ result' = "held"
                /\ got' = [path |-> PathOf(name), comp |-> readers[r][name]]
                /\ UNCHANGED <<store, sidecar, readers>>
           ELSE /\ result' = a.result
                /\ got' = [path |-> PathOf(name), comp |-> a.comp]
                /\ store' = a.store
                /\ sidecar' = a.sidecar
                /\ readers' = [readers EXCEPT ![r][name] = a.comp]
        /\ UNCHANGED <<fs, now, overrides>>
        /\ UNCHANGED readerFrame

\* Reader.contents(name, ext='.comp'): the text, or the error, in result
contents ==
  \E name \in CompNames :
    /\ op' = "contents"
    /\ result' = ReaderContents(overrides, fs, name)
    /\ got' = [path |-> PathOf(name), comp |-> NoComp]
    /\ UNCHANGED <<store, fs, sidecar, now, overrides, readers>>
    /\ UNCHANGED readerFrame

InitReader ==
  /\ components = <<>>
  /\ flow_edges = <<>>
  /\ graph = NoGraph
  /\ io = NoIO
  /\ op = "Reader"
  /\ result = "ok"
  /\ CacheInit
  /\ MoreInit

NextReader ==
  \/ inject_source
  \/ Reader_evict
  \/ clear_override
  \/ get_component
  \/ contents
  \/ Tick
  \/ WriteSource

SpecReader == InitReader /\ [][NextReader]_vars

----------------------------------------------------------------------------
(* SpecThreads: threads in Reader.add_component on the one component_cache *)

threadFrame == <<components, flow_edges, graph, io, overrides, readers, registries, restVars>>

\* thread t enters add_component and runs component_cache.get(abs_path)
T_get ==
  \E t \in Threads, p \in Paths :
    LET r == Get(store, fs, sidecar, p)
    IN  /\ threads[t].pc = "idle"
        /\ fs[p].exists
        /\ op' = "T_get"
        /\ result' = r.layer
        /\ store' = r.store
        /\ got' = [path |-> p, comp |-> r.comp]
        /\ threads' = [threads EXCEPT ![t] =
             IF r.comp # NoComp
             THEN [pc |-> "done", path |-> p, seen |-> fs[p], comp |-> r.comp]
             ELSE [pc |-> "missed", path |-> p, seen |-> fs[p], comp |-> NoComp]]
        /\ UNCHANGED <<fs, sidecar, now>>
        /\ UNCHANGED threadFrame

\* thread t, after a miss, reads the contents and parses them
T_parse ==
  \E t \in Threads :
    LET p == threads[t].path
    IN  /\ threads[t].pc = "missed"
        /\ fs[p].exists
        /\ op' = "T_parse"
        /\ result' = "parsed"
        /\ threads' = [threads EXCEPT ![t].pc = "parsed",
                                      ![t].comp = Comp(ReaderContents(overrides, fs, NameOf(p)))]
        /\ UNCHANGED <<store, fs, sidecar, now, got>>
        /\ UNCHANGED threadFrame

\* thread t runs component_cache.put(abs_path, res)
T_put ==
  \E t \in Threads, outcome \in WriteOutcomes :
    LET p == threads[t].path
        w == Put(store, fs, sidecar, p, threads[t].comp, now, outcome)
    IN  /\ threads[t].pc = "parsed"
        /\ fs[p].exists
        /\ op' = "T_put"
        /\ result' = outcome
        /\ store' = w.store
        /\ sidecar' = w.sidecar
        /\ threads' = [threads EXCEPT ![t].pc = "done"]
        /\ UNCHANGED <<fs, now, got>>
        /\ UNCHANGED threadFrame

\* thread t leaves add_component
T_return ==
  \E t \in Threads :
    /\ threads[t].pc = "done"
    /\ op' = "T_return"
    /\ result' = "ok"
    /\ threads' = [threads EXCEPT ![t] = Idle]
    /\ UNCHANGED <<store, fs, sidecar, now, got>>
    /\ UNCHANGED threadFrame

InitThreads ==
  /\ components = <<>>
  /\ flow_edges = <<>>
  /\ graph = NoGraph
  /\ io = NoIO
  /\ op = "Threads"
  /\ result = "ok"
  /\ CacheInit
  /\ MoreInit

NextThreads ==
  \/ T_get
  \/ T_parse
  \/ T_put
  \/ T_return
  \/ Tick
  \/ WriteSource

SpecThreads == InitThreads /\ [][NextThreads]_vars

----------------------------------------------------------------------------
(* SpecRegistry: the registry list of a Reader and the lookups through it *)

\* directories a SEARCH specification can name, and one that names none
Roots == {"/lib", "/usr", "/tmp"}

SearchSpecs == Roots \cup {"?"}

Registry(root) == [root |-> root]

NoRegistry == [root |-> None]

\* registry.registries_match(reg, spec)
registries_match(reg, spec) == reg.root = spec

\* registry.registry_from_specification(spec): None when spec names no directory
registry_from_specification(spec) ==
  IF spec \in Roots THEN Registry(spec) ELSE NoRegistry

\* Registry.known(name, ext): /tmp holds no component file
known(reg, name) == reg.root # "/tmp" /\ name \in CompNames

\* Registry.path, Registry.contents and Registry.fullname of one registry
RegistryResult(reg, name, what) == what \o ":" \o reg.root \o "/" \o name \o ".comp"

\* variant: the last registry that knows the name
FirstKnown_last(regs, name) ==
  IF \E i \in 1..Len(regs) : known(regs[i], name)
  THEN CHOOSE i \in 1..Len(regs) :
         /\ known(regs[i], name)
         /\ \A j \in (i + 1)..Len(regs) : ~known(regs[j], name)
  ELSE 0

\* the position of the registry the loops of locate, contents and fullname
\* return from, 0 when they fall through to the raise
FirstKnown(regs, name) ==
  IF \E i \in 1..Len(regs) : known(regs[i], name)
  THEN CHOOSE i \in 1..Len(regs) :
         /\ known(regs[i], name)
         /\ \A j \in 1..(i - 1) : ~known(regs[j], name)
  ELSE 0

\* Reader.locate(name) and Reader.fullname(name)
Lookup(regs, name, what) ==
  LET i == FirstKnown(regs, name)
  IN  IF i = 0 THEN "RuntimeError" ELSE RegistryResult(regs[i], name, what)

\* Reader.contents(name): the override comes before any registry
RegistryContents(regs, ovr, name) ==
  IF ovr[name] # NoText THEN ovr[name] ELSE Lookup(regs, name, "contents")

\* variant: the new registry goes to the end of the list
HandleSearchKeyword_append(regs, spec) ==
  IF \E i \in 1..Len(regs) : registries_match(regs[i], spec)
  THEN [registries |-> regs, result |-> "ok"]
  ELSE IF registry_from_specification(spec) # NoRegistry
       THEN [registries |-> Append(regs, registry_from_specification(spec)), result |-> "ok"]
       ELSE [registries |-> regs, result |-> "RuntimeError"]

\* Reader.handle_search_keyword(spec): the list after the call and how it ended
HandleSearchKeyword(regs, spec) ==
  IF \E i \in 1..Len(regs) : registries_match(regs[i], spec)
  THEN [registries |-> regs, result |-> "ok"]
  ELSE IF registry_from_specification(spec) # NoRegistry
       THEN [registries |-> <<registry_from_specification(spec)>> \o regs, result |-> "ok"]
       ELSE [registries |-> regs, result |-> "RuntimeError"]

registryFrame == <<components, flow_edges, graph, io, store, fs, sidecar, now, threads, restVars>>

handle_search_keyword ==
  \E spec \in SearchSpecs :
    LET h == HandleSearchKeyword(registries, spec)
    IN  /\ op' = "handle_search_keyword"
        /\ result' = h.result
        /\ registries' = h.registries
        /\ got' = [path |-> spec, comp |-> NoComp]
        /\ UNCHANGED <<overrides, readers>>
        /\ UNCHANGED registryFrame

locate ==
  \E name \in CompNames :
    /\ op' = "locate"
    /\ result' = Lookup(registries, name, "path")
    /\ got' = [path |-> name, comp |-> NoComp]
    /\ UNCHANGED <<overrides, readers, registries>>
    /\ UNCHANGED registryFrame

Reader_contents ==
  \E name \in CompNames :
    /\ op' = "Reader.contents"
    /\ result' = RegistryContents(registries, overrides, name)
    /\ got' = [path |-> name, comp |-> NoComp]
    /\ UNCHANGED <<overrides, readers, registries>>
    /\ UNCHANGED registryFrame

fullname ==
  \E name \in CompNames :
    /\ op' = "fullname"
    /\ result' = Lookup(registries, name, "fullname")
    /\ got' = [path |-> name, comp |-> NoComp]
    /\ UNCHANGED <<overrides, readers, registries>>
    /\ UNCHANGED registryFrame

\* Reader(registries=...): the list as ordered_registries leaves it
InitRegistry ==
  /\ components = <<>>
  /\ flow_edges = <<>>
  /\ graph = NoGraph
  /\ io = NoIO
  /\ op = "Reader"
  /\ result = "ok"
  /\ CacheInit
  /\ overrides = [name \in CompNames |-> NoText]
  /\ readers = [r \in Readers |-> [name \in CompNames |-> NoComp]]
  /\ threads = [t \in Threads |-> Idle]
  /\ parameters = <<>>
  /\ parts = NoParts
  /\ component = NewComp
  /\ fmt = NoFormatter
  /\ ToolInit
  /\ \E a, b \in Roots :
       registries = IF a = b THEN <<Registry(a)>> ELSE <<Registry(a), Registry(b)>>

NextRegistry ==
  \/ handle_search_keyword
  \/ locate
  \/ Reader_contents
  \/ fullname
  \/ inject_source
  \/ Reader_evict

SpecRegistry == InitRegistry /\ [][NextRegistry]_vars

----------------------------------------------------------------------------
(* SpecSplit: Instr.copy, Instr.split and Instr.mcpl_split *)

\* Instance.copy() into another Instr: the AT and ROTATED references stay the
\* objects of the instrument copied from
CopyInstance(x) ==
  [x EXCEPT !.at_relative.own = FALSE, !.rotate_relative.own = FALSE]

\* Instr.copy(first, last): components[first:last], 0-based, each one copied
Copy(comps, first, last) ==
  [i \in 1..(last - first) |-> CopyInstance(comps[first + i])]

has_component_named(comps, name) == \E i \in 1..Len(comps) : comps[i].name = name

\* variant: a reference is kept as it was copied
Rereference_kept(comps, ref) == ref

\* the loop body of split for one reference of an instance of second
Rereference(comps, ref) ==
  IF ref = NoRef THEN NoRef
  ELSE IF has_component_named(comps, ref.name) THEN Ref(ref.name, TRUE)
  ELSE NoRef

\* Instr.split(at) for a name: what it raised and the two instruments
Split(comps, params, at) ==
  LET index == {i \in 0..(Len(comps) - 1) : At(comps, i).name = at}
      idx   == CHOOSE i \in index : TRUE
      copy  == Copy(comps, idx, Len(comps))
  IN  IF Cardinality(index) # 1
      THEN [result |-> "RuntimeError", first |-> Part(<<>>, <<>>), second |-> Part(<<>>, <<>>)]
      ELSE [result |-> "ok",
            first  |-> Part(Copy(comps, 0, idx + 1), params),
            second |-> Part([i \in 1..Len(copy) |->
                               [copy[i] EXCEPT
                                  !.at_relative = Rereference(copy, @),
                                  !.rotate_relative = Rereference(copy, @)]],
                            params)]

\* Instr.make_instance(name, component, at_relative, rotate_relative) as
\* mcpl_split calls it: no group, no WHEN, no JUMP
McplInstance(old) ==
  [Instance(old.name, None, None, <<>>) EXCEPT
     !.at_relative = old.at_relative, !.rotate_relative = old.rotate_relative]

\* a reference to the instance called name no longer is to a list element
Orphan(ref, name) == IF ref.name = name THEN Ref(name, FALSE) ELSE ref

\* Instr.mcpl_split(after); resolved says whether the Reader finds the
\* MCPL_output and MCPL_input components
McplSplit(comps, params, after, resolved) ==
  LET s  == Split(comps, params, after)
      f  == s.first.components
      sd == s.second.components
      fc == f[Len(f)]
      sc == sd[1]
      rest == [i \in 1..(Len(sd) - 1) |->
                 [sd[i + 1] EXCEPT !.at_relative = Orphan(@, sc.name),
                                   !.rotate_relative = Orphan(@, sc.name)]]
  IN  IF s.result # "ok" THEN s
      ELSE IF parameter_name_present(params, "mcpl_filename") \/ ~resolved
      THEN [result |-> "RuntimeError", first |-> Part(<<>>, <<>>), second |-> Part(<<>>, <<>>)]
      ELSE [result |-> "ok",
            first  |-> Part(Append(SubSeq(f, 1, Len(f) - 1), McplInstance(fc)),
                            Append(params, Parameter("mcpl_filename", 0))),
            second |-> Part(<<McplInstance(sc)>> \o rest, Append(params, Parameter("mcpl_filename", 0)))]

\* the names split is called with: those of the instrument and one of no instance
SplitNames(comps) == {comps[i].name : i \in 1..Len(comps)} \cup {"z"}

splitFrame == <<flow_edges, graph, io, store, fs, sidecar, now, got, overrides, readers,
                threads, registries, component, fmt, toolVars>>

split ==
  \E at \in SplitNames(components) :
    LET s == Split(components, parameters, at)
    IN  /\ op' = "split"
        /\ result' = s.result
        /\ parts' = IF s.result = "ok"
                    THEN [made |-> TRUE, first |-> s.first, second |-> s.second]
                    ELSE parts
        /\ UNCHANGED <<components, parameters>>
        /\ UNCHANGED splitFrame

mcpl_split ==
  \E after \in SplitNames(components), resolved \in BOOLEAN :
    LET s == McplSplit(components, parameters, after, resolved)
    IN  /\ op' = "mcpl_split"
        /\ result' = s.result
        /\ parts' = IF s.result = "ok"
                    THEN [made |-> TRUE, first |-> s.first, second |-> s.second]
                    ELSE parts
        /\ UNCHANGED <<components, parameters>>
        /\ UNCHANGED splitFrame

\* the caller goes on with one of the two instruments returned
use_part ==
  \E which \in {"first", "second"} :
    LET part == IF which = "first" THEN parts.first ELSE parts.second
    IN  /\ parts.made
        /\ op' = "use_part"
        /\ result' = which
        /\ components' = part.components
        /\ parameters' = part.parameters
        /\ parts' = NoParts
        /\ flow_edges' = <<>>
        /\ UNCHANGED <<graph, io, store, fs, sidecar, now, got, overrides, readers,
                       threads, registries, component, fmt, toolVars>>

\* the instances here carry no GROUP, WHEN or JUMP
Plain(comps) ==
  \A i \in 1..Len(comps) :
    comps[i].group = None /\ comps[i].when = None /\ comps[i].jump = <<>>

\* a parsed instrument: each AT is absolute or relative to an earlier instance
\* of the same instrument, each ROTATED absolute or relative to PREVIOUS
InitSplit ==
  /\ \E n \in 0..MaxComponents :
       \E at, rot \in [1..n -> 0..(n - 1)] :
         /\ \A i \in 1..n : at[i] < i /\ rot[i] \in {0, i - 1}
         /\ components = [i \in 1..n |->
                            [Instance(InstanceNames[i], None, None, <<>>) EXCEPT
                               !.at_relative = IF at[i] = 0 THEN NoRef
                                               ELSE Ref(InstanceNames[at[i]], TRUE),
                               !.rotate_relative = IF rot[i] = 0 THEN NoRef
                                                   ELSE Ref(InstanceNames[rot[i]], TRUE)]]
  /\ flow_edges = <<>>
  /\ graph = NoGraph
  /\ io = NoIO
  /\ op = "Instr"
  /\ result = "ok"
  /\ CacheInit
  /\ overrides = [name \in CompNames |-> NoText]
  /\ readers = [r \in Readers |-> [name \in CompNames |-> NoComp]]
  /\ threads = [t \in Threads |-> Idle]
  /\ registries = <<>>
  /\ parameters = <<Parameter("E", 1)>>
  /\ parts = NoParts
  /\ component = NewComp
  /\ fmt = NoFormatter
  /\ ToolInit

NextSplit ==
  \/ split
  \/ mcpl_split
  \/ use_part
  \/ (~parts.made /\ add_component /\ Plain(components'))
  \/ (~parts.made /\ make_instance /\ Plain(components'))
  \/ (~parts.made /\ insert_component /\ Plain(components'))

SpecSplit == InitSplit /\ [][NextSplit]_vars

----------------------------------------------------------------------------
(* SpecParams: the parameters of a Comp and of an Instr *)

ParameterNames == {"x", "y"}

ParameterValues == {1, 2}

\* Comp.parameter_name_used(parameter_type, name): it raises
parameter_name_used(c, name) ==
  \/ parameter_name_present(c.define, name)
  \/ parameter_name_present(c.setting, name)
  \/ parameter_name_present(c.output, name)

paramsFrame == <<components, flow_edges, graph, io, store, fs, sidecar, now, got,
                 overrides, readers, threads, registries, parts, fmt, toolVars>>

add_define ==
  \E name \in ParameterNames, value \in ParameterValues :
    /\ op' = "add_define"
    /\ IF parameter_name_used(component, name)
       THEN result' = "RuntimeError" /\ UNCHANGED component
       ELSE /\ result' = "ok"
            /\ component' = [component EXCEPT !.define = Append(@, Parameter(name, value))]
    /\ UNCHANGED parameters
    /\ UNCHANGED paramsFrame

add_setting ==
  \E name \in ParameterNames, value \in ParameterValues :
    /\ op' = "add_setting"
    /\ IF parameter_name_used(component, name)
       THEN result' = "RuntimeError" /\ UNCHANGED component
       ELSE /\ result' = "ok"
            /\ component' = [component EXCEPT !.setting = Append(@, Parameter(name, value))]
    /\ UNCHANGED parameters
    /\ UNCHANGED paramsFrame

add_output ==
  \E name \in ParameterNames, value \in ParameterValues :
    /\ op' = "add_output"
    /\ IF parameter_name_present(component.output, name)
       THEN result' = "RuntimeError" /\ UNCHANGED component
       ELSE /\ result' = "ok"
            /\ component' = [component EXCEPT !.output = Append(@, Parameter(name, value))]
    /\ UNCHANGED parameters
    /\ UNCHANGED paramsFrame

\* Instr.add_parameter(a, ignore_repeated)
add_parameter ==
  \E name \in ParameterNames, value \in ParameterValues, ignore_repeated \in BOOLEAN :
    /\ op' = "add_parameter"
    /\ IF ~parameter_name_present(parameters, name)
       THEN /\ result' = "ok"
            /\ parameters' = Append(parameters, Parameter(name, value))
       ELSE /\ result' = IF ignore_repeated THEN "ignored" ELSE "RuntimeError"
            /\ UNCHANGED parameters
    /\ UNCHANGED component
    /\ UNCHANGED paramsFrame

InitParams ==
  /\ components = <<>>
  /\ flow_edges = <<>>
  /\ graph = NoGraph
  /\ io = NoIO
  /\ op = "Comp"
  /\ result = "ok"
  /\ CacheInit
  /\ MoreInit

NextParams ==
  \/ add_define
  \/ add_setting
  \/ add_output
  \/ add_parameter

SpecParams == InitParams /\ [][NextParams]_vars

----------------------------------------------------------------------------
(* SpecFormat: the formatter of .instr sources and the comments it carries *)

\* the comments drawn into a source, and the times a text is formatted
MaxComments == 2

MaxPasses == 2

\* the visible tokens of
\*   define instrument T(p = 1 + 2) trace component a = C() at (0,0,0) absolute end
\* that differ in what the formatter does with the comments to their left:
\* "flush" tokens are handed to _flush_comments_before, "inner" tokens lie
\* inside the span _literal_text copies from the source, "plain" tokens are
\* written with neither
Skeleton ==
  << [word |-> "define",    cls |-> "flush", keyword |-> TRUE],
     [word |-> "1",         cls |-> "plain", keyword |-> FALSE],
     [word |-> "+ 2",       cls |-> "inner", keyword |-> FALSE],
     [word |-> "trace",     cls |-> "flush", keyword |-> TRUE],
     [word |-> "component", cls |-> "flush", keyword |-> TRUE],
     [word |-> "at",        cls |-> "plain", keyword |-> TRUE],
     [word |-> "end",       cls |-> "flush", keyword |-> TRUE] >>

\* a token of the default channel: the k-th of the skeleton, in this case
Visible(k, upper) == [channel |-> "default", k |-> k, upper |-> upper]

\* a BlockComment or LineComment token, on the hidden channel
Hidden(id) == [channel |-> "hidden", k |-> id, upper |-> FALSE]

\* the text written for a visible token: keywords in upper case, the rest verbatim
Written(tok) == IF Skeleton[tok.k].keyword THEN Visible(tok.k, TRUE) ELSE tok

\* CommonTokenStream.getHiddenTokensToLeft(tokenIndex): the places of the
\* hidden tokens between the previous default-channel token and this one
HiddenToLeft(ts, i) ==
  {j \in 1..(i - 1) : \A m \in j..(i - 1) : ts[m].channel = "hidden"}

\* the tokens of ts at the places of set, in the order of ts
TokensAt(ts, set) == SelectSeq([j \in 1..Len(ts) |-> IF j \in set THEN ts[j] ELSE Hidden(0)],
                               LAMBDA t : t # Hidden(0))

Highest(set, default) == IF set = {} THEN default ELSE CHOOSE j \in set : \A m \in set : m <= j

\* the place of the first default-channel token at or after place i, or 0
NextVisible(ts, i) ==
  IF \E j \in i..Len(ts) : ts[j].channel = "default"
  THEN CHOOSE j \in i..Len(ts) :
         ts[j].channel = "default" /\ \A m \in i..(j - 1) : ts[m].channel = "hidden"
  ELSE 0

\* _flush_comments_before(token): the places of the tokens it writes;
\* tokenIndex is the place less one
Eligible(ts, i, last) == {j \in HiddenToLeft(ts, i) : j - 1 > last}

formatFrame == <<components, flow_edges, graph, io, store, fs, sidecar, now, got,
                 overrides, readers, threads, registries, parameters, parts, component,
                 toolVars>>

\* format_source(source, '.instr'): the source, or the text of the last pass,
\* is lexed and parsed and a _McInstrFormatter made for its token stream
format_source ==
  /\ fmt.phase # "walk"
  /\ fmt.pass < MaxPasses
  /\ fmt.phase = "done" \/ fmt.src # <<>>
  /\ op' = "format_source"
  /\ result' = "ok"
  /\ fmt' = [fmt EXCEPT !.phase = "walk",
                        !.ts = IF fmt.phase = "done" THEN fmt.out ELSE fmt.src,
                        !.pos = 1, !.out = <<>>, !.last = -1, !.pass = @ + 1]
  /\ UNCHANGED formatFrame

\* the formatter comes to the next token of the parse tree and writes it,
\* after the comments _flush_comments_before or _literal_text give it
format_token ==
  LET i   == NextVisible(fmt.ts, fmt.pos)
      tok == fmt.ts[i]
      cls == Skeleton[tok.k].cls
      el  == Eligible(fmt.ts, i, fmt.last)
  IN  /\ fmt.phase = "walk"
      /\ i # 0
      /\ op' = "format_token"
      /\ result' = cls
      /\ fmt' = [fmt EXCEPT
           !.pos = i + 1,
           !.out = IF cls = "flush" THEN @ \o TokensAt(fmt.ts, el) \o <<Written(tok)>>
                   ELSE IF cls = "inner"
                   THEN @ \o TokensAt(fmt.ts, HiddenToLeft(fmt.ts, i)) \o <<Written(tok)>>
                   ELSE Append(@, Written(tok)),
           !.last = IF cls = "flush" THEN Highest({j - 1 : j \in el}, @) ELSE @]
      /\ UNCHANGED formatFrame

\* _flush_trailing_comments() and result()
flush_trailing_comments ==
  LET el  == {j \in 1..Len(fmt.ts) : fmt.ts[j].channel = "hidden" /\ j - 1 > fmt.last}
      out == fmt.out \o TokensAt(fmt.ts, el)
  IN  /\ fmt.phase = "walk"
      /\ NextVisible(fmt.ts, fmt.pos) = 0
      /\ op' = "flush_trailing_comments"
      /\ result' = "ok"
      /\ fmt' = [fmt EXCEPT !.phase = "done", !.out = out,
                            !.last = Highest({j - 1 : j \in el}, @),
                            !.first = IF fmt.pass = 1 THEN out ELSE @]
      /\ UNCHANGED formatFrame

\* a source: the skeleton, keywords in either case, with up to MaxComments
\* comments, numbered in source order, each before a token or after the last
InitFormat ==
  /\ components = <<>>
  /\ flow_edges = <<>>
  /\ graph = NoGraph
  /\ io = NoIO
  /\ op = "Formatter"
  /\ result = "ok"
  /\ CacheInit
  /\ overrides = [name \in CompNames |-> NoText]
  /\ readers = [r \in Readers |-> [name \in CompNames |-> NoComp]]
  /\ threads = [t \in Threads |-> Idle]
  /\ registries = <<>>
  /\ parameters = <<>>
  /\ parts = NoParts
  /\ component = NewComp
  /\ ToolInit
  /\ \E n \in 0..MaxComments, upper \in BOOLEAN :
       \E slot \in [1..n -> 1..(Len(Skeleton) + 1)] :
         /\ \A a, b \in 1..n : a <= b => slot[a] <= slot[b]
         /\ LET before(k) == TokensAt([c \in 1..n |-> Hidden(c)],
                                      {c \in 1..n : slot[c] = k})
                RECURSIVE build(_)
                build(k) == IF k > Len(Skeleton) THEN before(k)
                            ELSE before(k) \o <<Visible(k, upper)>> \o build(k + 1)
            IN  fmt = [NoFormatter EXCEPT !.src = build(1)]

NextFormat ==
  \/ format_source
  \/ format_token
  \/ flush_trailing_comments

SpecFormat == InitFormat /\ [][NextFormat]_vars

----------------------------------------------------------------------------
(* SpecBlock: a %{ ... %} block on its way through format_source *)

\* the longest content of a block, in characters
MaxBlockLen == 3

\* the characters of a block: a letter, a blank, a line end
BlockChars == {"x", " ", "\n"}

Texts == UNION {[1..n -> BlockChars] : n \in 0..MaxBlockLen}

\* str.rstrip(chars)
RECURSIVE rstrip(_, _)
rstrip(text, chars) ==
  IF text # <<>> /\ text[Len(text)] \in chars
  THEN rstrip(SubSeq(text, 1, Len(text) - 1), chars)
  ELSE text

\* str.splitlines()
RECURSIVE splitlines(_)
splitlines(text) ==
  IF text = <<>> THEN <<>>
  ELSE LET ends == {i \in 1..Len(text) : text[i] = "\n"}
       IN IF ends = {} THEN <<text>>
          ELSE LET i == CHOOSE e \in ends : \A f \in ends : e <= f
               IN <<SubSeq(text, 1, i - 1)>> \o splitlines(SubSeq(text, i + 1, Len(text)))

\* '\n'.join(lines)
RECURSIVE join(_)
join(lines) ==
  IF lines = <<>> THEN <<>>
  ELSE IF Len(lines) = 1 THEN lines[1]
  ELSE lines[1] \o <<"\n">> \o join(Tail(lines))

\* _Formatter.result(): every line right-stripped, one line end at the end
Normalise(text) ==
  LET lines == [k \in 1..Len(splitlines(text)) |-> rstrip(splitlines(text)[k], {" "})]
  IN rstrip(join(lines), {"\n"}) \o <<"\n">>

\* the UnparsedBlock token of a content: the delimiters are one element each
UnparsedBlock(content) == <<"%{">> \o content \o <<"%}">>

\* _Formatter._format_unparsed_block: the token as it is, or the delimiters
\* around what the callable makes of the content between them
FormatUnparsedBlock(ub_text, clang_fmt, formatted) ==
  IF ~clang_fmt \/ ~(ub_text[1] = "%{" /\ ub_text[Len(ub_text)] = "%}")
  THEN [text |-> ub_text, calls |-> <<>>]
  ELSE [text |-> <<"%{">> \o formatted \o <<"%}">>,
        calls |-> <<SubSeq(ub_text, 2, Len(ub_text) - 1)>>]

\* the text between the delimiters of the block in an output
BlockOf(out) ==
  LET a == CHOOSE i \in 1..Len(out) : out[i] = "%{"
      b == CHOOSE i \in 1..Len(out) : out[i] = "%}"
  IN SubSeq(out, a + 1, b - 1)

\* _section('DECLARE', ...) and _format_multi_block: the keyword on a line of
\* its own after a blank line, then the block and a line end
format_multi_block ==
  /\ block.phase = "source"
  /\ LET made == FormatUnparsedBlock(UnparsedBlock(block.text), block.clang_fmt,
                                     block.formatted)
     IN block' = [block EXCEPT !.phase = "written",
                               !.calls = made.calls,
                               !.out = <<"\n", "DECLARE", "\n">> \o made.text \o <<"\n">>]
  /\ op' = "format_multi_block"
  /\ result' = "ok"
  /\ UNCHANGED blockFrame

\* the TRACE section that follows, then _Formatter.result()
Formatter_result ==
  /\ block.phase = "written"
  /\ block' = [block EXCEPT !.phase = "done",
                            !.out = Normalise(block.out \o <<"\n", "TRACE", "\n">>)]
  /\ op' = "result"
  /\ result' = "ok"
  /\ UNCHANGED blockFrame

\* any content, with no callable or with one that returns any text
InitBlock ==
  /\ QuietInit("block")
  /\ op = "format_source"
  /\ result = "ok"
  /\ \E content \in Texts, clang_fmt \in BOOLEAN :
       \E formatted \in (IF clang_fmt THEN Texts ELSE {<<>>}) :
         block = [phase |-> "source", text |-> content, clang_fmt |-> clang_fmt,
                  formatted |-> formatted, calls |-> <<>>, out |-> <<>>]

NextBlock ==
  \/ format_multi_block
  \/ Formatter_result

SpecBlock == InitBlock /\ [][NextBlock]_vars

----------------------------------------------------------------------------
(* SpecExpr: the folding operators of the expression classes *)

\* the largest literal drawn as an operand
MaxLiteral == 2

\* a number as a reduced fraction: Python's / of two ints is exact here
Ratio(n, d) ==
  LET sn == IF d < 0 THEN 0 - n ELSE n
      sd == IF d < 0 THEN 0 - d ELSE d
      an == IF sn < 0 THEN 0 - sn ELSE sn
      g == CHOOSE k \in 1..(an + sd) :
             /\ an % k = 0 /\ sd % k = 0
             /\ \A j \in 1..(an + sd) : (an % j = 0 /\ sd % j = 0) => j <= k
  IN <<sn \div g, sd \div g>>

Times(a, b) == Ratio(a[1] * b[1], a[2] * b[2])
Over(a, b) == Ratio(a[1] * b[2], a[2] * b[1])

\* Value(v, DataType.int): a literal
Value(v) ==
  [kind |-> "Value", op |-> "", is_id |-> FALSE, value |-> v, name |-> "", args |-> <<>>]

\* Value(name): a string value of no str type, which is_id tells from a literal
Identifier(name) ==
  [kind |-> "Value", op |-> "", is_id |-> TRUE, value |-> <<0, 1>>, name |-> name,
   args |-> <<>>]

UnaryOp(o, v) ==
  [kind |-> "UnaryOp", op |-> o, is_id |-> FALSE, value |-> <<0, 1>>, name |-> "",
   args |-> <<v>>]

BinaryOp(o, l, r) ==
  [kind |-> "BinaryOp", op |-> o, is_id |-> FALSE, value |-> <<0, 1>>, name |-> "",
   args |-> <<l, r>>]

\* what an operator that raises leaves in place of an expression
RuntimeError ==
  [kind |-> "RuntimeError", op |-> "", is_id |-> FALSE, value |-> <<0, 1>>, name |-> "",
   args |-> <<>>]

\* is_op, is_zero and is_value(n) of the three classes
is_op(e) == e.kind # "Value"
is_zero(e) == e.kind = "Value" /\ ~e.is_id /\ e.value[1] = 0
is_value(e, n) == e.kind = "Value" /\ ~e.is_id /\ e.value = <<n, 1>>

\* __neg__ of the three classes
Neg(e) ==
  IF e.kind = "Value"
  THEN IF e.is_id THEN UnaryOp("-", e) ELSE Value(<<0 - e.value[1], e.value[2]>>)
  ELSE IF e.kind = "UnaryOp" /\ e.op = "-" THEN e.args[1]
  ELSE UnaryOp("-", e)

\* Value.__mul__, and __mul__ of UnaryOp and BinaryOp
Mul(self, other) ==
  IF self.kind = "Value"
  THEN IF is_zero(self) \/ is_zero(other) THEN Value(<<0, 1>>)
       ELSE IF is_value(self, 1) THEN other
       ELSE IF is_value(self, -1) THEN Neg(other)
       ELSE IF is_op(other) \/ self.is_id \/ other.is_id
            THEN BinaryOp("*", self, other)
       ELSE Value(Times(self.value, other.value))
  ELSE IF is_zero(other) THEN other
       ELSE IF is_value(other, 1) THEN self
       ELSE IF is_value(other, -1) THEN Neg(self)
       ELSE BinaryOp("*", self, other)

\* Value.__truediv__, and __truediv__ of UnaryOp and BinaryOp
TrueDiv(self, other) ==
  IF self.kind = "Value"
  THEN IF is_zero(self) THEN Value(<<0, 1>>)
       ELSE IF is_value(other, 1) THEN self
       ELSE IF is_value(other, -1) THEN Neg(self)
       ELSE IF is_zero(other) THEN RuntimeError
       ELSE IF is_op(other) \/ self.is_id \/ other.is_id
            THEN BinaryOp("/", self, other)
       ELSE Value(Over(self.value, other.value))
  ELSE IF is_zero(other) THEN RuntimeError
       ELSE IF is_value(other, 1) THEN self
       ELSE IF is_value(other, -1) THEN Neg(self)
       ELSE BinaryOp("/", self, other)

\* the operands drawn: literals, an identifier, and operations over them
Atoms == {Value(<<v, 1>>) : v \in (0 - 1)..MaxLiteral} \cup {Identifier("x")}

Operands ==
  Atoms \cup {UnaryOp(o, a) : o \in {"-", "abs"}, a \in Atoms}
        \cup {BinaryOp(o, a, b) : o \in {"+", "*"}, a \in Atoms, b \in Atoms}

\* Expr.__mul__: x * y
Expr_mul ==
  /\ expr.op = "operands"
  /\ expr' = [expr EXCEPT !.op = "mul", !.value = Mul(expr.left, expr.right)]
  /\ op' = "__mul__"
  /\ result' = "ok"
  /\ UNCHANGED exprFrame

\* Expr.__truediv__: x / y
Expr_truediv ==
  /\ expr.op = "operands"
  /\ expr' = [expr EXCEPT !.op = "truediv", !.value = TrueDiv(expr.left, expr.right)]
  /\ op' = "__truediv__"
  /\ result' = IF TrueDiv(expr.left, expr.right) = RuntimeError
               THEN "RuntimeError" ELSE "ok"
  /\ UNCHANGED exprFrame

InitExpr ==
  /\ QuietInit("expr")
  /\ op = "Expr"
  /\ result = "ok"
  /\ \E x, y \in Operands :
       expr = [op |-> "operands", left |-> x, right |-> y, value |-> <<>>]

NextExpr ==
  \/ Expr_mul
  \/ Expr_truediv

SpecExpr == InitExpr /\ [][NextExpr]_vars

----------------------------------------------------------------------------
(* SpecSearch: the SEARCH and SEARCH SHELL statements under InstrVisitor *)

\* the longest output of the command of SEARCH SHELL, in pieces
MaxOutput == 4

\* a text is a sequence of pieces: a quote, a blank, a line end, or a word
Quotes == {"\"", "'"}

\* the StringLiteral tokens drawn: a directory or a command, in quotes
Literals ==
  {<<q>> \o body \o <<q>> :
     q \in Quotes,
     body \in {<<"/lib">>, <<"/usr">>, <<"echo", " ", "/lib">>,
               <<"config", " ", "--show", " ", "compdir">>}}

\* what the command may print
Outputs == UNION {[1..n -> {"/lib", "/usr", "\n"}] : n \in 0..MaxOutput}

\* str.split(sep): the pieces between the separators, empty ones kept
RECURSIVE split_on(_, _)
split_on(text, sep) ==
  LET at == {i \in 1..Len(text) : text[i] = sep}
  IN IF at = {} THEN <<text>>
     ELSE LET i == CHOOSE e \in at : \A f \in at : e <= f
          IN <<SubSeq(text, 1, i - 1)>> \o split_on(SubSeq(text, i + 1, Len(text)), sep)

\* str.split(): the words between runs of blanks, none of them empty
split_blank(text) == SelectSeq(split_on(text, " "), LAMBDA w : w # <<>>)

\* the literal without the quotes around it
Unquoted(literal) == SubSeq(literal, 2, Len(literal) - 1)

\* the search spec a text denotes: a directory of Roots, or none
AsSpec(text) == IF Len(text) = 1 /\ text[1] \in Roots THEN text[1] ELSE "?"

\* the calls parent.handle_search_keyword receives for a list of specs: each
\* in turn, until one raises
RECURSIVE HandleAll(_, _, _)
HandleAll(regs, specs, calls) ==
  IF specs = <<>> THEN [registries |-> regs, calls |-> calls, result |-> "ok"]
  ELSE LET h == HandleSearchKeyword(regs, AsSpec(Head(specs)))
       IN IF h.result # "ok"
          THEN [registries |-> regs, calls |-> Append(calls, Head(specs)),
                result |-> h.result]
          ELSE HandleAll(h.registries, Tail(specs), Append(calls, Head(specs)))

\* InstrVisitor.visitSearchPath: str(ctx.StringLiteral()) goes to the parent
visitSearchPath ==
  /\ search.phase = "parsed"
  /\ LET h == HandleAll(registries, <<search.literal>>, <<>>)
     IN /\ search' = [search EXCEPT !.phase = "done", !.calls = h.calls]
        /\ registries' = h.registries
        /\ result' = h.result
  /\ op' = "visitSearchPath"
  /\ UNCHANGED <<components, flow_edges, graph, io, store, fs, sidecar, now, got,
                 overrides, readers, threads, parameters, parts, component, fmt>>
  /\ UNCHANGED searchOthers

\* InstrVisitor.visitSearchShell: the literal split at blanks is run with
\* shell=True, and every piece of the output between line ends goes to the parent
visitSearchShell ==
  /\ search.phase = "parsed"
  /\ LET h == HandleAll(registries, split_on(search.stdout, "\n"), <<>>)
     IN /\ search' = [search EXCEPT !.phase = "done",
                                    !.args = split_blank(search.literal),
                                    !.shell = TRUE,
                                    !.calls = h.calls]
        /\ registries' = h.registries
        /\ result' = h.result
  /\ op' = "visitSearchShell"
  /\ UNCHANGED <<components, flow_edges, graph, io, store, fs, sidecar, now, got,
                 overrides, readers, threads, parameters, parts, component, fmt>>
  /\ UNCHANGED searchOthers

InitSearch ==
  /\ QuietInit("search")
  /\ op = "InstrVisitor"
  /\ result = "ok"
  /\ \E literal \in Literals, out \in Outputs :
       search = [phase |-> "parsed", literal |-> literal, stdout |-> out,
                 args |-> <<>>, shell |-> FALSE, calls |-> <<>>]

NextSearch ==
  \/ visitSearchPath
  \/ visitSearchShell

SpecSearch == InitSearch /\ [][NextSearch]_vars

----------------------------------------------------------------------------
(* SpecListener: the error listener of the lexer and parser *)

\* the longest source, in lines, and the widest column of an error
MaxLines == 8
MaxColumn == 2

\* the lines logged before and after the marker: pre and post of the listener
pre == 5
post == 2

\* one index of a Python slice over a list of length n: a negative index
\* counts from the end, and both ends are clamped to the list
SliceIndex(i, n) ==
  LET k == IF i < 0 THEN i + n ELSE i
  IN IF k < 0 THEN 0 ELSE IF k > n THEN n ELSE k

\* list[start:stop]
Slice(list, start, stop) ==
  LET a == SliceIndex(start, Len(list))
      b == SliceIndex(stop, Len(list))
  IN IF a >= b THEN <<>> ELSE SubSeq(list, a + 1, b)

\* the slice syntaxError takes before the marker
PreLines(lines, line) == Slice(lines, line - pre, line)

\* logger.info of each line of a list
Info(lines) == [k \in 1..Len(lines) |-> [level |-> "info", text |-> lines[k], column |-> 0]]

\* the marker: column '~' and a '^'
Marker(column) == [level |-> "error", text |-> 0, column |-> column]

\* ReaderErrorListener.syntaxError(line, column): the lines before, the marker,
\* the lines after (the headline it logs first is left out)
syntaxError ==
  /\ listener.phase = "parsing"
  /\ listener' = [listener EXCEPT
       !.phase = "reported",
       !.log = Info(PreLines(listener.source, listener.line))
               \o <<Marker(listener.column)>>
               \o Info(Slice(listener.source, listener.line, listener.line + post))]
  /\ op' = "syntaxError"
  /\ result' = "ok"
  /\ UNCHANGED listenerFrame

\* a source whose line k reads k, and an error somewhere in it
InitListener ==
  /\ QuietInit("listener")
  /\ op = "make_reader_error_listener"
  /\ result = "ok"
  /\ \E n \in 1..MaxLines :
       \E l \in 1..n, c \in 0..MaxColumn :
         listener = [phase |-> "parsing", source |-> [k \in 1..n |-> k], line |-> l,
                     column |-> c, log |-> <<>>]

NextListener == syntaxError

SpecListener == InitListener /\ [][NextListener]_vars

----------------------------------------------------------------------------
(* SpecHeader: the comments before DEFINE COMPONENT and the McDoc header *)

\* the most hidden tokens before DEFINE
MaxHidden == 3

\* a hidden token is a line or a block comment, with or without a McDoc tag;
\* the token at place i of the stream has tokenIndex i - 1
CommentKinds == {[block |-> b, tagged |-> t] : b, t \in BOOLEAN}

\* the text starts with '/*' and holds one of %I, %D, %P, %E
IsMcDoc(tok) == tok.block /\ tok.tagged

\* the tokenIndex of the first block comment past _last_comment_idx that looks
\* like a McDoc header, or -1
McDocToken(hidden, last) ==
  LET found == {i \in 1..Len(hidden) : i - 1 > last /\ IsMcDoc(hidden[i])}
  IN IF found = {} THEN 0 - 1
     ELSE (CHOOSE i \in found : \A j \in found : i <= j) - 1

\* what is written for a hidden token, and for the canonical header
Emitted(i) == [what |-> "comment", index |-> i]
Canonical == [what |-> "mcdoc", index |-> 0 - 1]

\* _format_mcdoc_header: the McDoc comment is consumed by moving
\* _last_comment_idx up to it, and the canonical header is written
format_mcdoc_header ==
  /\ header.phase = "parsed"
  /\ LET tok == McDocToken(header.hidden, header.last)
     IN header' = [header EXCEPT
          !.phase = "header",
          !.last = IF tok >= 0 /\ tok > header.last THEN tok ELSE header.last,
          !.out = Append(header.out, Canonical)]
  /\ op' = "_format_mcdoc_header"
  /\ result' = "ok"
  /\ UNCHANGED headerFrame

\* _flush_comments_before(Define): every hidden token past _last_comment_idx
\* is written, and _last_comment_idx follows
flush_comments_before_define ==
  /\ header.phase = "header"
  /\ LET eligible == {i \in 1..Len(header.hidden) : i - 1 > header.last}
         first == IF eligible = {} THEN Len(header.hidden) + 1
                  ELSE CHOOSE i \in eligible : \A j \in eligible : i <= j
     IN header' = [header EXCEPT
          !.phase = "flushed",
          !.last = IF eligible = {} THEN header.last ELSE Len(header.hidden) - 1,
          !.out = header.out
                  \o [k \in 1..(Len(header.hidden) - first + 1) |-> Emitted(first + k - 2)]]
  /\ op' = "_flush_comments_before"
  /\ result' = "ok"
  /\ UNCHANGED headerFrame

InitHeader ==
  /\ QuietInit("header")
  /\ op = "format_comp_source"
  /\ result = "ok"
  /\ \E n \in 0..MaxHidden :
       \E hidden \in [1..n -> CommentKinds] :
         header = [phase |-> "parsed", hidden |-> hidden, last |-> 0 - 1, out |-> <<>>]

NextHeader ==
  \/ format_mcdoc_header
  \/ flush_comments_before_define

SpecHeader == InitHeader /\ [][NextHeader]_vars

----------------------------------------------------------------------------
(* SpecOverride: the cache, the overrides and a source saved only forwards *)

\* an editor saves the .comp file: new content, and an mtime later than any
\* time stamp given so far
SaveSource ==
  \E p \in Paths, c \in Contents :
    /\ now < MaxMtime
    /\ now' = now + 1
    /\ fs' = [fs EXCEPT ![p] = File(now + 1, c)]
    /\ op' = "save source"
    /\ result' = "ok"
    /\ UNCHANGED <<store, sidecar, got>>
    /\ UNCHANGED instrData
    /\ UNCHANGED moreVars

NextOverride ==
  \/ inject_source
  \/ Reader_evict
  \/ clear_override
  \/ get_component
  \/ evict
  \/ clear
  \/ SaveSource

SpecOverride == InitReader /\ [][NextOverride]_vars

----------------------------------------------------------------------------
(* SpecGroups: Instr.groups and the component list it was determined from *)

\* the most calls of determine_groups on one instrument
MaxDetermine == 2

\* one (index, instance) pair of a Group
Member(index, name) == [index |-> index, name |-> name]

\* Group.add(id, inst) over the whole component list, from place i on: the
\* pair is appended to the list of the instance's group
RECURSIVE DetermineGroups(_, _, _)
DetermineGroups(members, comps, i) ==
  IF i > Len(comps) THEN members
  ELSE IF comps[i].group = None THEN DetermineGroups(members, comps, i + 1)
  ELSE DetermineGroups(
         [members EXCEPT ![comps[i].group] = Append(@, Member(i - 1, comps[i].name))],
         comps, i + 1)

\* Instr.determine_groups(): every instance with a group is added to the Group
\* of that name, which is made on first use; Instr.groups is not emptied first
determine_groups ==
  /\ groups.determined < MaxDetermine
  /\ groups' = [groups EXCEPT
       !.determined = @ + 1,
       !.members = DetermineGroups(groups.members, components, 1)]
  /\ op' = "determine_groups"
  /\ result' = "ok"
  /\ UNCHANGED groupsFrame

\* Instr.copy(first, last) taken in place of the instrument, as split and
\* mcpl_split take their parts: the components of the range are copied, and
\* every Group is copied whole; one copy is followed here
Instr_copy ==
  \E first \in 0..Len(components) :
    \E last \in first..Len(components) :
      /\ groups.determined > 0 /\ ~groups.copied
      /\ components' = Copy(components, first, last)
      /\ groups' = [groups EXCEPT !.copied = TRUE]
      /\ flow_edges' = <<>>
      /\ op' = "copy"
      /\ result' = "ok"
      /\ UNCHANGED <<graph, io, store, fs, sidecar, now, got, overrides, readers,
                     threads, registries, parameters, parts, component, fmt>>
      /\ UNCHANGED groupsOthers

InitGroups ==
  /\ QuietInit("groups")
  /\ op = "Instr"
  /\ result = "ok"
  /\ groups = NoGroups

\* the instances added here carry a GROUP or nothing
NextGroups ==
  \/ determine_groups
  \/ (add_component /\ Plain([k \in 1..Len(components') |->
                                [components'[k] EXCEPT !.group = None]]))
  \/ make_instance
  \/ Instr_copy

SpecGroups == InitGroups /\ [][NextGroups]_vars

----------------------------------------------------------------------------
(* SpecJumps: jump targets resolved, read, and carried into a copy *)

\* the component at index i can be skipped unless it jumps (its EXTEND and
\* TRACE blocks are taken to be empty)
can_skip(inst) == Len(inst.jump) = 0

\* one turn of the loop of detect_skipable_transforms: list[t] = False, with
\* Python's reading of a negative index, and IndexError outside the list
MarkTarget(flags, t) ==
  LET n == Len(flags)
      k == IF t < 0 THEN t + n ELSE t
  IN IF k < 0 \/ k >= n THEN [raised |-> TRUE, flags |-> flags]
     ELSE [raised |-> FALSE, flags |-> [flags EXCEPT ![k + 1] = FALSE]]

RECURSIVE MarkFrom(_, _, _, _)
MarkFrom(comps, flags, places, p) ==
  IF p > Len(places) THEN [flags |-> flags, result |-> "ok"]
  ELSE LET jump == At(comps, places[p][1]).jump[places[p][2]]
           r    == MarkTarget(flags, jump.absolute_target)
       IN IF r.raised THEN [flags |-> flags, result |-> "IndexError"]
          ELSE MarkFrom(comps, r.flags, places, p + 1)

\* TargetVisitor.detect_skipable_transforms on a component list
DetectSkipable(comps) ==
  MarkFrom(comps, [i \in 1..Len(comps) |-> can_skip(comps[i])], JumpPlaces(comps, 0), 1)

\* TargetVisitor.translate() as far as the jumps go: set_jump_absolute_targets,
\* then detect_skipable_transforms
translate ==
  LET r == ResolveFrom(components, JumpPlaces(components, 0), 1)
      d == DetectSkipable(r.components)
  IN /\ components' = r.components
     /\ op' = "translate"
     /\ result' = IF r.result # "ok" THEN r.result ELSE d.result
     /\ ok_to_skip' = IF r.result = "ok" /\ d.result = "ok" THEN d.flags ELSE ok_to_skip
     /\ UNCHANGED <<flow_edges, graph, io, store, fs, sidecar, now, got, overrides,
                    readers, threads, registries, parameters, parts, component, fmt>>
     /\ UNCHANGED ok_to_skipOthers

\* Instr.copy(first, last), or a part of split, taken in place of the
\* instrument: Instance.copy hands each copy the jump tuple of the original
take_copy ==
  \E first \in 0..Len(components) :
    \E last \in first..Len(components) :
      /\ last - first < Len(components)
      /\ components' = Copy(components, first, last)
      /\ flow_edges' = <<>>
      /\ ok_to_skip' = <<>>
      /\ op' = "copy"
      /\ result' = "ok"
      /\ UNCHANGED <<graph, io, store, fs, sidecar, now, got, overrides, readers,
                     threads, registries, parameters, parts, component, fmt>>
      /\ UNCHANGED ok_to_skipOthers

InitJumps ==
  /\ ParsedComponents(components)
  /\ flow_edges = <<>>
  /\ graph = NoGraph
  /\ io = NoIO
  /\ op = "parse"
  /\ result = "ok"
  /\ CacheInit
  /\ MoreInit

NextJumps ==
  \/ set_jump_absolute_targets
  \/ translate
  \/ take_copy

SpecJumps == InitJumps /\ [][NextJumps]_vars

----------------------------------------------------------------------------
(* SpecInstance: Instance.set_parameter *)

\* the most parameters an instance is let hold
MaxParameters == 3

\* the DEFINITION and SETTING parameters of the instance's type, the names a
\* caller gives (one of them unknown to the type), and the values: "bad" is
\* the one the parameter's compatible_value rejects
TypeDefine == <<Parameter("x", "0")>>
TypeSetting == <<Parameter("y", "0")>>
SetNames == {"x", "y", "q"}
SetValues == {"1", "2", "bad"}

compatible_value(value) == value # "bad"

\* the parameters without those of a name
Without(params, name) == SelectSeq(params, LAMBDA x : x.name # name)

\* Instance.set_parameter(name, value, overwrite, allow_repeated): the
\* parameters after the call and how it ended
SetParameter(params, name, value, overwrite, allow_repeated) ==
  IF ~parameter_name_present(TypeDefine, name) /\ ~parameter_name_present(TypeSetting, name)
  THEN [parameters |-> params, result |-> "RuntimeError"]
  ELSE LET present == parameter_name_present(params, name)
           kept    == IF present /\ overwrite THEN Without(params, name) ELSE params
       IN IF present /\ ~overwrite /\ ~allow_repeated
          THEN [parameters |-> params, result |-> "RuntimeError"]
          ELSE IF ~compatible_value(value)
               THEN [parameters |-> kept, result |-> "RuntimeError"]
               ELSE [parameters |-> Append(kept, Parameter(name, value)), result |-> "ok"]

set_parameter ==
  \E name \in SetNames, value \in SetValues, overwrite, allow_repeated \in BOOLEAN :
    LET r == SetParameter(instance.parameters, name, value, overwrite, allow_repeated)
    IN /\ Len(r.parameters) <= MaxParameters
       /\ instance' = [instance EXCEPT !.parameters = r.parameters]
       /\ op' = "set_parameter"
       /\ result' = r.result
       /\ got' = [path |-> name, comp |-> NoComp]
       /\ UNCHANGED <<components, flow_edges, graph, io, store, fs, sidecar, now,
                      overrides, readers, threads, registries, parameters, parts,
                      component, fmt>>
       /\ UNCHANGED instanceOthers

InitInstance ==
  /\ QuietInit("instance")
  /\ op = "Instance"
  /\ result = "ok"
  /\ instance = NoInstance

NextInstance == set_parameter

SpecInstance == InitInstance /\ [][NextInstance]_vars

----------------------------------------------------------------------------
(* Vocabulary of the flow properties *)

\* the stored edge list is the one just built from the component list
Built == op \in {"build_flow_graph", "build_instance_io"}

Names(comps) == {comps[i].name : i \in 1..Len(comps)}

\* the positions in edges of the records of one group and kind
GroupRecordsAt(edges, g, kind) ==
  {k \in 1..Len(edges) : /\ edges[k].edge.type = "group"
                         /\ edges[k].edge.group_name = g
                         /\ edges[k].edge.kind = kind}

SequentialRecordsAt(edges) ==
  {k \in 1..Len(edges) : edges[k].edge.type = "sequential"}

JumpRecordsAt(edges) ==
  {k \in 1..Len(edges) : edges[k].edge.type = "jump"}

Ends(edges, at) == {<<edges[k].src, edges[k].dst>> : k \in at}

\* the members of g occupy consecutive indices (and there is one at least)
Contiguous(comps, g) ==
  LET members == GroupMembers(comps, g)
  IN  /\ Len(members) >= 1
      /\ \A k \in 1..(Len(members) - 1) : members[k + 1] = members[k] + 1

\* what the edges of a contiguous group g must be
GroupEdgesExact(comps, edges, g) ==
  LET members == GroupMembers(comps, g)
      k       == Len(members)
      last    == members[k]
      try     == GroupRecordsAt(edges, g, "TRY_NEXT")
      scatter == GroupRecordsAt(edges, g, "SCATTER_EXIT")
      pass    == GroupRecordsAt(edges, g, "PASS_THROUGH")
      name(i) == At(comps, i).name
  IN  /\ Cardinality(try) = k - 1
      /\ Ends(edges, try) = {<<name(members[i]), name(members[i + 1])>> : i \in 1..(k - 1)}
      /\ \A j \in SequentialRecordsAt(edges) :
           edges[j].src \notin {name(members[i]) : i \in 1..k}
      /\ IF last + 1 < Len(comps)
         THEN /\ Cardinality(scatter) = k
              /\ Ends(edges, scatter) = {<<name(members[i]), name(last + 1)>> : i \in 1..k}
              /\ Cardinality(pass) = 1
              /\ Ends(edges, pass) = {<<name(last), name(last + 1)>>}
         ELSE scatter = {} /\ pass = {}

\* C1: in the built edge list, a group whose members m_1..m_k are consecutive
\* has exactly the TRY_NEXT edges m_i -> m_(i+1), no Sequential edge leaving a
\* member, and, when a component e follows m_k, exactly one SCATTER_EXIT edge
\* from every member to e and exactly one PASS_THROUGH edge m_k -> e; when m_k
\* is the last component it has no SCATTER_EXIT and no PASS_THROUGH edge.
C1_GroupEdges ==
  Built => \A g \in GroupNames :
             Contiguous(components, g) => GroupEdgesExact(components, flow_edges, g)

\* a group of two members or more with a component after it
C1_Witness ==
  /\ Built
  /\ \E g \in GroupNames :
       /\ Contiguous(components, g)
       /\ Len(GroupMembers(components, g)) >= 2
       /\ GroupMembers(components, g)[Len(GroupMembers(components, g))] + 1 < Len(components)
       /\ GroupRecordsAt(flow_edges, g, "PASS_THROUGH") # {}

\* C2: an adjacent pair (u, v) with u in no group has exactly one Sequential
\* edge u -> v, and it carries v's WHEN; without groups and jumps the edges are
\* exactly the N-1 Sequential edges in component order; the nodes are the
\* component names, each holding its component; no component, no node, no edge.
C2_SequentialEdges ==
  op = "build_particle_flow_graph" =>
    LET n     == Len(components)
        edges == graph.edges
    IN  /\ \A i \in 0..(n - 2) :
             At(components, i).group = None =>
               LET u    == At(components, i)
                   v    == At(components, i + 1)
                   here == {k \in SequentialRecordsAt(edges) :
                              edges[k].src = u.name /\ edges[k].dst = v.name}
               IN  /\ Cardinality(here) = 1
                   /\ \A k \in here : edges[k].edge = SequentialEdge(v.when)
        /\ (\A i \in 1..n : components[i].group = None /\ components[i].jump = <<>>) =>
             edges = [i \in 1..(n - 1) |->
                        FlowEdgeRecord(components[i].name, components[i + 1].name,
                                       SequentialEdge(components[i + 1].when))]
        /\ DOMAIN graph.nodes = Names(components)
        /\ \A i \in 1..n : graph.nodes[components[i].name] = components[i]
        /\ n = 0 => DOMAIN graph.nodes = {} /\ edges = <<>>

\* three plain components whose WHENs differ along the way
C2_Witness ==
  /\ op = "build_particle_flow_graph"
  /\ Len(components) = 3
  /\ \A i \in 1..3 : components[i].group = None /\ components[i].jump = <<>>
  /\ components[2].when # components[3].when
  /\ Len(graph.edges) = 2

\* the index a JUMP designates: the component of that name, or the instance's
\* own index plus the relative offset for PREVIOUS, NEXT and MYSELF
IsRelative(jmp) == jmp.target \in {"PREVIOUS", "NEXT", "MYSELF"}

Designated(comps, i, jmp) ==
  IF IsRelative(jmp) THEN i + jmp.relative_target ELSE FirstIndexOf(comps, jmp.target)

InRange(comps, t) == 0 <= t /\ t < Len(comps)

DesignatedRecord(comps, i, jmp) ==
  FlowEdgeRecord(At(comps, i).name, At(comps, Designated(comps, i, jmp)).name,
                 JumpEdge(jmp.condition, jmp.iterate, Designated(comps, i, jmp)))

\* C3: every JUMP of instance i that designates an index t with 0 <= t < N has
\* exactly one Jump edge from i to components[t] carrying its condition, its
\* iterate flag and absolute_target = t, and a JUMP that designates an index
\* out of range has no edge.
C3_JumpEdges ==
  Built =>
    \A i \in 0..(Len(components) - 1) :
      LET inst   == At(components, i)
          placed == {k \in 1..Len(inst.jump) :
                       InRange(components, Designated(components, i, inst.jump[k]))}
      IN  /\ Cardinality({k \in JumpRecordsAt(flow_edges) : flow_edges[k].src = inst.name})
               = Cardinality(placed)
          /\ \A k \in placed :
               Cardinality({e \in 1..Len(flow_edges) :
                              flow_edges[e] = DesignatedRecord(components, i, inst.jump[k])})
                 = Cardinality({j \in placed :
                                  DesignatedRecord(components, i, inst.jump[j])
                                    = DesignatedRecord(components, i, inst.jump[k])})

\* the edges were built from a JUMP PREVIOUS whose absolute_target is unset
C3_RelativeUnresolved ==
  /\ Built
  /\ \E i \in 0..(Len(components) - 1) : \E k \in 1..Len(At(components, i).jump) :
       /\ At(components, i).jump[k].target = "PREVIOUS"
       /\ At(components, i).jump[k].absolute_target = -1
       /\ i >= 1

\* no member of g is in the inputs or the outputs of another member of g
NoCoMember(comps, g) ==
  LET members == Range(MemberNames(comps, g))
  IN  \A m \in members : \A other \in members \ {m} :
        other \notin io.inputs[m] /\ other \notin io.outputs[m]

JumpInside(comps, edges, g) ==
  LET names == MemberNames(comps, g)
  IN  \E k \in JumpRecordsAt(edges) :
        /\ edges[k].src \in Range(names)
        /\ edges[k].dst \in Range(names)
        /\ edges[k].src # edges[k].dst \/ edges[k].dst = names[1]

C8_GroupPropagation ==
  op = "build_instance_io" =>
    /\ io.status = "ok"
    /\ \A g \in GroupNames :
         LET idxs  == GroupMembers(components, g)
             names == MemberNames(components, g)
             exit  == IF idxs = <<>> THEN 0
                      ELSE ExitIndex(components, g, idxs[Len(idxs)] + 1)
         IN  idxs # <<>> =>
               /\ \A m \in Range(names) : io.inputs[names[1]] \subseteq io.inputs[m]
               /\ \A p \in io.inputs[names[1]] : Range(names) \subseteq io.outputs[p]
               /\ exit < Len(components) =>
                    Range(names) \subseteq io.inputs[At(components, exit).name]

\* a group of two members with a predecessor and a component after it
C8_Witness ==
  /\ op = "build_instance_io" /\ io.status = "ok"
  /\ \E g \in GroupNames :
       LET idxs  == GroupMembers(components, g)
           names == MemberNames(components, g)
       IN  /\ Len(idxs) >= 2
           /\ io.inputs[names[1]] # {}
           /\ idxs[Len(idxs)] + 1 < Len(components)
           /\ names[2] \notin {flow_edges[k].dst : k \in SequentialRecordsAt(flow_edges)}

----------------------------------------------------------------------------
(* Properties of the edited instrument *)

Inserted == op = "insert_component" /\ result = "ok"

AllUnresolved(comps) ==
  \A i \in 1..Len(comps) : \A k \in 1..Len(comps[i].jump) :
    comps[i].jump[k].absolute_target = -1

\* C4: after a successful insert_component every Jump.absolute_target is -1,
\* and for each JUMP to a named instance of the list the rebuilt edges hold
\* exactly one Jump edge from the jumping instance to that name, whose
\* absolute_target is the index of the name in the new component list.
C4_InsertInvalidatesJumps ==
  Inserted =>
    /\ AllUnresolved(components)
    /\ \A i \in 1..Len(components) : \A k \in 1..Len(components[i].jump) :
         LET inst == components[i]
             jmp  == inst.jump[k]
             to   == {e \in JumpRecordsAt(flow_edges) :
                        flow_edges[e].src = inst.name /\ flow_edges[e].dst = jmp.target}
         IN  (~IsRelative(jmp) /\ FirstIndexOf(components, jmp.target) >= 0) =>
               /\ Cardinality(to)
                    = Cardinality({j \in 1..Len(inst.jump) : inst.jump[j].target = jmp.target})
               /\ \A e \in to :
                    flow_edges[e].edge.absolute_target
                      = FirstIndexOf(components, jmp.target)

\* after an insertion, a JUMP to a named instance at index 2 or later has its edge
C4_Witness ==
  /\ Inserted
  /\ \E i \in 1..Len(components) : \E k \in 1..Len(components[i].jump) :
       /\ ~IsRelative(components[i].jump[k])
       /\ FirstIndexOf(components, components[i].jump[k].target) >= 2
       /\ \E e \in JumpRecordsAt(flow_edges) : flow_edges[e].src = components[i].name

AllContiguous(comps) ==
  \A g \in GroupNames : GroupMembers(comps, g) # <<>> => Contiguous(comps, g)

\* the pairs of adjacent members of one group, as the index of the second
InsideGroup(comps) ==
  {idx \in 1..(Len(comps) - 1) :
     /\ At(comps, idx - 1).group # None
     /\ At(comps, idx - 1).group = At(comps, idx).group}

\* insert_component between two adjacent members of a group is rejected unless
\* the new instance joins that group, called with before= or with after=
RejectedUnlessSameGroup ==
  \A idx \in InsideGroup(components) : \A group \in GroupNames \cup {None} :
    LET name   == FreshName(components)
        want   == IF group = At(components, idx).group THEN "ok"
                  ELSE "ValueError: group"
        before == InsertComponent(components, flow_edges, name,
                                  At(components, idx).name, None, group)
        after  == InsertComponent(components, flow_edges, name,
                                  None, At(components, idx - 1).name, group)
    IN  before.result = want /\ after.result = want

\* a rejected insert_component leaves the list, the jumps and the edges alone
RejectedInsertUnchanged ==
  (op' = "insert_component" /\ result' # "ok") =>
    (components' = components /\ flow_edges' = flow_edges)

\* the step put one new instance at index idx of the new list
InsertedAt(old, new, idx) ==
  /\ Len(new) = Len(old) + 1
  /\ new = InsertAt(Invalidate(old), idx, At(new, idx))

\* the new instance has no group, founds a group, or sits next to a member
Joins(new, idx) ==
  LET g == At(new, idx).group
  IN  \/ g = None
      \/ \A k \in 0..(Len(new) - 1) : k # idx => At(new, k).group # g
      \/ idx > 0 /\ At(new, idx - 1).group = g
      \/ idx + 1 < Len(new) /\ At(new, idx + 1).group = g

GroupsCovered(comps, edges) ==
  /\ AllContiguous(comps)
  /\ \A g \in GroupNames :
       GroupMembers(comps, g) # <<>> => GroupEdgesExact(comps, edges, g)

C6_FlowEdgesFresh ==
  (op \in {"add_component", "make_instance", "insert_component"} /\ result = "ok") =>
    /\ flow_edges = build_flow_edge_records(components)
    /\ DOMAIN flow_graph_from_records(components, flow_edges).nodes = Names(components)
    /\ \A k \in 1..Len(flow_edges) :
         flow_edges[k].src \in Names(components) /\ flow_edges[k].dst \in Names(components)

----------------------------------------------------------------------------
(* Properties of the component cache *)

\* C9: get returns the Comp of the store only when the file's mtime equals the
\* stored mtime, and then the Comp stored; a stale entry is out of the store
\* after the get, which returns nothing from it, and whatever the store holds
\* afterwards carries the file's mtime; when the file cannot be stat-ed get
\* returns no Comp and leaves the store alone.
C9_MemoryLevel ==
  [][op' = "get" =>
       LET p == got'.path
       IN  /\ result' = "memory" =>
                /\ fs[p].exists /\ store[p].present
                /\ store[p].mtime = fs[p].mtime
                /\ got'.comp = store[p].comp
                /\ store' = store
           /\ (fs[p].exists /\ store[p].present /\ store[p].mtime # fs[p].mtime) =>
                /\ result' # "memory"
                /\ store'[p] # store[p]
                /\ store'[p].present => store'[p].mtime = fs[p].mtime
           /\ ~fs[p].exists =>
                (got'.comp = NoComp /\ result' = "none" /\ store' = store)]_vars

\* a memory hit on a file written after the cache first saw it
C9_Witness ==
  /\ op = "get" /\ result = "memory"
  /\ \E p \in Paths :
       /\ got.path = p
       /\ fs[p].exists /\ fs[p].mtime >= 1
       /\ store[p].present /\ store[p].comp = got.comp

\* C10: when the store gives nothing for the file's mtime, get returns the
\* decoded sidecar exactly when the sidecar exists, is not older than the
\* source and decodes to a Comp; the store then holds that Comp under the
\* source's mtime, so that a get on the unchanged files is a memory hit with
\* the same Comp; a sidecar older than the source is never returned.
C10_SidecarLevel ==
  /\ [][op' = "get" =>
          LET p      == got'.path
              usable == /\ sidecar[p].exists
                        /\ sidecar[p].mtime >= fs[p].mtime
                        /\ sidecar[p].payload.kind = "Comp"
          IN  /\ (fs[p].exists /\ ~(store[p].present /\ store[p].mtime = fs[p].mtime)) =>
                   /\ (got'.comp # NoComp) = usable
                   /\ usable => /\ got'.comp = sidecar[p].payload.body
                                /\ result' = "sidecar"
                                /\ store'[p] = Entry(fs[p].mtime, got'.comp)
              /\ result' = "sidecar" =>
                   (sidecar[p].exists /\ sidecar[p].mtime >= fs[p].mtime)]_vars
  /\ [](op = "get" /\ result = "sidecar" =>
          /\ Get(store, fs, sidecar, got.path).layer = "memory"
          /\ Get(store, fs, sidecar, got.path).comp = got.comp)

\* the sidecar, written after the source, gave the Comp
C10_Witness ==
  /\ op = "get" /\ result = "sidecar"
  /\ \E p \in Paths :
       /\ got.path = p
       /\ sidecar[p].mtime > fs[p].mtime
       /\ store[p] = Entry(fs[p].mtime, got.comp)

\* the sidecar of p holds bytes that do not decode, and a get would read it
CorruptSidecarRead(p) ==
  /\ fs[p].exists
  /\ ~MemoryHit(store[p], fs[p].mtime)
  /\ SidecarFresh(sidecar[p], fs[p].mtime)
  /\ sidecar[p].payload.kind = "corrupt"

\* C11 as stated: resolving a component whose sidecar is corrupt raises
\* nothing, parses the source again and stores the fresh Comp, and leaves no
\* corrupt sidecar on disk, also when the sidecar cannot be written.
C11_CorruptSidecarRemoved ==
  [][\A p \in Paths :
       (op' = "Reader.add_component" /\ got'.path = p /\ CorruptSidecarRead(p)) =>
         /\ result' = "parsed"
         /\ store'[p] = Entry(fs[p].mtime, Comp(fs[p].content))
         /\ ~(sidecar'[p].exists /\ sidecar'[p].payload.kind = "corrupt")]_vars

\* C12 as stated: while a source override is set for a name, contents returns
\* the override, and get_component on any Reader returns the Comp parsed from
\* the override whatever the memory and sidecar layers hold; with no override
\* contents returns the text on disk.
C12_OverrideResolved ==
  [][\A name \in CompNames :
       /\ (op' = "contents" /\ got'.path = PathOf(name)) =>
            result' = (IF overrides[name] # NoText THEN overrides[name]
                       ELSE IF fs[PathOf(name)].exists THEN fs[PathOf(name)].content
                       ELSE "RuntimeError")
       /\ (op' = "get_component" /\ got'.path = PathOf(name)
             /\ overrides[name] # NoText /\ result' # "RuntimeError") =>
            got'.comp = Comp(overrides[name])]_vars

\* the part of C12 about contents alone
C12_ContentsPrefersOverride ==
  [][\A name \in CompNames :
       (op' = "contents" /\ got'.path = PathOf(name) /\ overrides[name] # NoText) =>
         result' = overrides[name]]_vars

\* two threads are both past a miss on the same file, which has not changed
DoubleMiss(t1, t2) ==
  /\ t1 # t2
  /\ threads[t1].pc \in {"missed", "parsed"}
  /\ threads[t2].pc \in {"missed", "parsed"}
  /\ threads[t1].path = threads[t2].path
  /\ threads[t1].seen = threads[t2].seen
  /\ fs[threads[t1].path] = threads[t1].seen

\* C13 as stated: the lookup and the store of one resolution are atomic with
\* respect to another thread's, so two threads never both miss and both parse
\* the same unchanged file, and the store never holds a partial entry.
C13_LookupThenStoreAtomic ==
  /\ \A t1, t2 \in Threads : ~DoubleMiss(t1, t2)
  /\ \A p \in Paths : store[p].present => store[p].comp # NoComp

\* the registries of regs in their order, without the one at position 1
Rest(regs) == SubSeq(regs, 2, Len(regs))

\* C14: handle_search_keyword(spec) leaves the list unchanged when a registry
\* of the list matches spec; otherwise the registry built from spec becomes
\* element 0 and the others keep their order; when spec yields no registry it
\* raises and the list is unchanged; a second call with the same spec changes
\* nothing more.
C14_SearchKeyword ==
  [][op' = "handle_search_keyword" =>
       LET spec    == got'.path
           matched == \E i \in 1..Len(registries) : registries_match(registries[i], spec)
           built   == registry_from_specification(spec)
       IN  /\ matched => (registries' = registries /\ result' = "ok")
           /\ (~matched /\ built # NoRegistry) =>
                /\ result' = "ok"
                /\ Len(registries') = Len(registries) + 1
                /\ registries'[1] = built
                /\ Rest(registries') = registries
           /\ (~matched /\ built = NoRegistry) =>
                (result' = "RuntimeError" /\ registries' = registries)
           /\ HandleSearchKeyword(registries', spec).registries = registries']_vars

\* a call put a new registry in front of at least two older ones
C14_Witness ==
  /\ op = "handle_search_keyword"
  /\ result = "ok"
  /\ Len(registries) = 3
  /\ registries[1] = Registry(got.path)

\* what the first registry of the list that knows name gives for a lookup, or
\* the error when none knows it; the lookup leaves the Reader as it was
FirstRegistryWins(name, what) ==
  /\ \A i \in 1..Len(registries) :
       (known(registries[i], name) /\ \A j \in 1..(i - 1) : ~known(registries[j], name))
         => result' = RegistryResult(registries[i], name, what)
  /\ (\A i \in 1..Len(registries) : ~known(registries[i], name)) => result' = "RuntimeError"
  /\ readers' = readers
  /\ registries' = registries

\* C15 as stated: locate, contents and fullname each return the result of the
\* first registry in list order that knows the name, and raise, changing
\* nothing, when no registry knows it.
C15_FirstMatchAlways ==
  [][/\ op' = "locate" => FirstRegistryWins(got'.path, "path")
     /\ op' = "fullname" => FirstRegistryWins(got'.path, "fullname")
     /\ op' = "Reader.contents" => FirstRegistryWins(got'.path, "contents")]_vars

\* C15: locate and fullname, and contents for a name without a source
\* override, return the result of the first registry in list order that knows
\* the name and raise, changing nothing, when none knows it; contents for a
\* name with a source override returns the override and asks no registry.
C15_FirstMatchWins ==
  [][/\ op' = "locate" => FirstRegistryWins(got'.path, "path")
     /\ op' = "fullname" => FirstRegistryWins(got'.path, "fullname")
     /\ (op' = "Reader.contents" /\ overrides[got'.path] = NoText)
          => FirstRegistryWins(got'.path, "contents")
     /\ (op' = "Reader.contents" /\ overrides[got'.path] # NoText)
          => (result' = overrides[got'.path] /\ readers' = readers
                /\ registries' = registries)]_vars

\* contents passed over a registry that does not know the name and took the
\* text from the first of two that know it
C15_Witness ==
  /\ op = "Reader.contents"
  /\ Len(registries) = 3
  /\ ~known(registries[1], got.path)
  /\ known(registries[2], got.path)
  /\ known(registries[3], got.path)
  /\ result = RegistryResult(registries[2], got.path, "contents")

UniqueNames(comps) ==
  \A i, j \in 1..Len(comps) : comps[i].name = comps[j].name => i = j

\* C16: after any sequence of add_component, make_instance, insert_component,
\* split and mcpl_split, no two instances of an instrument share a name, in
\* the instrument edited and in the two a split returns; an add or insert of
\* a name in use raises and leaves the component list unchanged.
C16_UniqueNames ==
  /\ [](/\ UniqueNames(components)
        /\ UniqueNames(parts.first.components)
        /\ UniqueNames(parts.second.components))
  /\ [][(/\ op' \in {"add_component", "make_instance", "insert_component"}
         /\ result' \in {"RuntimeError", "ValueError: name"})
          => (components' = components /\ UniqueNames(components'))]_vars

\* an mcpl_split put equal-named instances in place of the split point in both
\* instruments, and a duplicate name was refused afterwards
C16_Witness ==
  /\ op = "add_component"
  /\ result = "RuntimeError"
  /\ Len(components) >= 2
  /\ parameters = <<Parameter("E", 1), Parameter("mcpl_filename", 0)>>

NamesOf(comps) == [i \in 1..Len(comps) |-> comps[i].name]

\* the reference is absent, or is to an element of comps
RefInside(comps, ref) ==
  ref = NoRef \/ (ref.own /\ \E i \in 1..Len(comps) : comps[i].name = ref.name)

\* the places of the components called at
Named(comps, at) == {k \in 1..Len(comps) : comps[k].name = at}

\* C18: split(at) for a name of exactly one component c_k returns a first
\* instrument of c_0..c_k and a second of c_k..c_(n-1) and leaves the
\* instrument split as it was; in the second every at_relative and
\* rotate_relative reference is absent or is an element of the second's own
\* list; split raises when at names no component or more than one.
C18_Split ==
  /\ [][op' = "split" =>
          LET f  == parts'.first.components
              sd == parts'.second.components
          IN  /\ components' = components /\ parameters' = parameters
              /\ result' # "ok" => (result' = "RuntimeError" /\ parts' = parts)
              /\ result' = "ok" =>
                   /\ \E k \in 1..Len(components) :
                        /\ NamesOf(f) = NamesOf(SubSeq(components, 1, k))
                        /\ NamesOf(sd) = NamesOf(SubSeq(components, k, Len(components)))
                   /\ \A i \in 1..Len(sd) :
                        /\ RefInside(sd, sd[i].at_relative)
                        /\ RefInside(sd, sd[i].rotate_relative)]_vars
  /\ [](\A at \in SplitNames(components) :
          /\ (Split(components, parameters, at).result = "ok")
               = (Cardinality(Named(components, at)) = 1)
          /\ \A k \in 1..Len(components) :
               Split(Append(components, components[k]), parameters,
                     components[k].name).result = "RuntimeError")

\* a split kept a reference into the second instrument and dropped one that
\* pointed before the split point
C18_Witness ==
  /\ op = "split"
  /\ result = "ok"
  /\ \E k \in 2..Len(components) :
       /\ NamesOf(parts.second.components) = NamesOf(SubSeq(components, k, Len(components)))
       /\ \E i \in 1..Len(parts.second.components) :
            /\ components[k + i - 1].at_relative # NoRef
            /\ parts.second.components[i].at_relative = NoRef
            /\ parts.second.components[i].rotate_relative.own

UniqueParameters(params) ==
  \A i, j \in 1..Len(params) : params[i].name = params[j].name => i = j

\* C17 as stated: no parameter name occurs twice across define, setting and
\* output of a Comp taken together, nor twice in the parameters of an Instr;
\* a rejected addition raises and leaves the tuples unchanged; with
\* ignore_repeated the parameter added first under a name is the one kept.
C17_UniqueParameters ==
  /\ [](/\ UniqueParameters(component.define \o component.setting \o component.output)
        /\ UniqueParameters(parameters))
  /\ [][result' \in {"RuntimeError", "ignored"} =>
          (component' = component /\ parameters' = parameters)]_vars

\* the part of C17 that is about Instr.add_parameter and about define and
\* setting of a Comp
C17_UniqueButOutput ==
  /\ [](/\ UniqueParameters(component.define \o component.setting)
        /\ UniqueParameters(component.output)
        /\ UniqueParameters(parameters))
  /\ [][result' \in {"RuntimeError", "ignored"} =>
          (component' = component /\ parameters' = parameters)]_vars

\* C19 as stated: formatting the formatted text again gives the same text
C19_Idempotent ==
  (fmt.phase = "done" /\ fmt.pass = 2) => fmt.out = fmt.first

\* the comments of a token sequence, in its order
CommentsOf(ts) == SelectSeq(ts, LAMBDA t : t.channel = "hidden")

\* the visible tokens of a token sequence before its n-th comment
VisibleBefore(ts, n) ==
  LET at == CHOOSE j \in 1..Len(ts) :
              /\ ts[j].channel = "hidden"
              /\ Len(CommentsOf(SubSeq(ts, 1, j))) = n
  IN  Len(SelectSeq(SubSeq(ts, 1, at), LAMBDA t : t.channel = "default"))

\* C20 as stated: the output of a pass holds every comment of its source
\* exactly once, in source order, each before the first visible token that
\* follows it in the source, and _last_comment_idx never decreases.
C20_CommentsPreserved ==
  /\ [](fmt.phase = "done" =>
          /\ CommentsOf(fmt.out) = CommentsOf(fmt.ts)
          /\ \A n \in 1..Len(CommentsOf(fmt.ts)) :
               VisibleBefore(fmt.out, n) = VisibleBefore(fmt.ts, n))
  /\ [][fmt'.pass = fmt.pass => fmt'.last >= fmt.last]_vars

\* the part of C20 about _last_comment_idx alone
C20_LastIndexGrows ==
  [][fmt'.pass = fmt.pass => fmt'.last >= fmt.last]_vars

\* C21: the text format_source returns holds every %{ ... %} block as it was
\* written, the blanks at the ends of its lines included, when there is no
\* external formatter; with one, the callable is handed the text between the
\* delimiters, once, and the block returned is the delimiters around its answer
C21_BlockVerbatim ==
  block.phase = "done" =>
    IF block.clang_fmt
    THEN block.calls = <<block.text>> /\ BlockOf(block.out) = block.formatted
    ELSE block.calls = <<>> /\ BlockOf(block.out) = block.text

\* what does hold: the callable is handed the content without the delimiters,
\* and the block returned differs from the one written at most in the blanks
\* that end its lines
C21_CallableGetsContent ==
  block.phase # "source" =>
    /\ block.calls = IF block.clang_fmt THEN <<block.text>> ELSE <<>>
    /\ BlockOf(block.out)
         \in {t \in {block.text, block.formatted} : block.phase = "written"}
             \cup {BlockOf(Normalise(UnparsedBlock(t))) :
                     t \in {IF block.clang_fmt THEN block.formatted ELSE block.text}}

\* a line of a block without a formatter ends in a blank, and the text is out
C21_Witness ==
  /\ block.phase = "done"
  /\ ~block.clang_fmt
  /\ block.text = <<"x", " ", "\n">>

\* C22: x / y with y a literal zero raises the division-by-zero error whatever
\* x is, a literal zero included; with y an identifier or an operation it never
\* raises
C22_DivisionByZero ==
  expr.op = "truediv" =>
    /\ is_zero(expr.right) => expr.value = RuntimeError
    /\ (is_op(expr.right) \/ expr.right.is_id) => expr.value # RuntimeError

\* what does hold: the error is raised for a literal zero under every operand
\* but a literal zero, and for no other divisor
C22_NonZeroNumerator ==
  expr.op = "truediv" =>
    (expr.value = RuntimeError <=> (is_zero(expr.right) /\ ~is_zero(expr.left)))

\* zero has been divided by zero
C22_Witness ==
  expr.op = "truediv" /\ is_zero(expr.left) /\ is_zero(expr.right)

\* C23: x * 1, 1 * x and x / 1 return x, and x * -1, -1 * x and x / -1 return
\* -x, for a literal, an identifier and an operation alike; none of them makes
\* a BinaryOp with a literal 1 or -1 as an operand
C23_UnitFolding ==
  /\ (expr.op \in {"mul", "truediv"} /\ is_value(expr.right, 1))
       => expr.value = expr.left
  /\ (expr.op = "mul" /\ is_value(expr.left, 1)) => expr.value = expr.right
  /\ (expr.op \in {"mul", "truediv"} /\ is_value(expr.right, -1))
       => expr.value = Neg(expr.left)
  /\ (expr.op = "mul" /\ is_value(expr.left, -1)) => expr.value = Neg(expr.right)

\* what does hold: the same with the unit on the left of *, on the right of /,
\* and on the right of * under an operation or a literal
C23_UnitFoldingButRightOfValue ==
  /\ (expr.op = "truediv" /\ is_value(expr.right, 1)) => expr.value = expr.left
  /\ (expr.op = "mul" /\ is_value(expr.left, 1)) => expr.value = expr.right
  /\ (expr.op = "truediv" /\ is_value(expr.right, -1)) => expr.value = Neg(expr.left)
  /\ (expr.op = "mul" /\ is_value(expr.left, -1)) => expr.value = Neg(expr.right)
  /\ (expr.op = "mul" /\ ~expr.left.is_id /\ is_value(expr.right, 1))
       => expr.value = expr.left
  /\ (expr.op = "mul" /\ ~expr.left.is_id /\ is_value(expr.right, -1))
       => expr.value = Neg(expr.left)

\* an identifier has been multiplied by the literal 1
C23_Witness ==
  expr.op = "mul" /\ expr.left = Identifier("x") /\ is_value(expr.right, 1)

\* the lines of an output that are not empty, in order
NonEmptyLines(out) == SelectSeq(split_on(out, "\n"), LAMBDA l : l # <<>>)

IsPrefix(s, t) == Len(s) <= Len(t) /\ s = SubSeq(t, 1, Len(s))

\* C24: SEARCH hands handle_search_keyword the content of its string literal
\* without the quotes; SEARCH SHELL strips the quotes, splits the command into
\* an argument list, runs it with shell=False, and hands handle_search_keyword
\* each non-empty line of the output once, in order, and never an empty string
C24_SearchStatements ==
  /\ op = "visitSearchPath" => search.calls = <<Unquoted(search.literal)>>
  /\ op = "visitSearchShell" =>
       /\ search.args = split_blank(Unquoted(search.literal))
       /\ ~search.shell
       /\ IsPrefix(search.calls, NonEmptyLines(search.stdout))
       /\ result = "ok" => search.calls = NonEmptyLines(search.stdout)
       /\ \A i \in 1..Len(search.calls) : search.calls[i] # <<>>

\* what does hold: SEARCH makes one call, SEARCH SHELL one per line of the
\* output in order, up to the first that raises
C24_OneCallPerLine ==
  /\ op = "visitSearchPath" => search.calls = <<search.literal>>
  /\ op = "visitSearchShell" =>
       /\ IsPrefix(search.calls, split_on(search.stdout, "\n"))
       /\ result = "ok" => search.calls = split_on(search.stdout, "\n")

\* SEARCH SHELL "echo /lib" has run and printed one line with its line end
C24_Witness ==
  /\ op = "visitSearchShell"
  /\ search.literal = <<"\"", "echo", " ", "/lib", "\"">>
  /\ search.stdout = <<"/lib", "\n">>

\* the numbers a..b as a sequence, empty when a > b
FromTo(a, b) == [k \in 1..(IF b >= a THEN b - a + 1 ELSE 0) |-> a + k - 1]

Min(a, b) == IF a <= b THEN a ELSE b
Max(a, b) == IF a >= b THEN a ELSE b

\* the context the listener is to log for an error at line l of n lines
Context(n, l, c) ==
  Info(FromTo(Max(1, l - pre + 1), l)) \o <<Marker(c)>> \o Info(FromTo(l + 1, Min(n, l + post)))

\* C25: for an error at line L and column C of a source of n lines, the
\* listener logs the lines leading up to and including L (at most five, never
\* none, never lines from elsewhere), then the marker of C tildes, then the
\* min(2, n - L) lines after L; also for L below five
C25_ErrorContext ==
  listener.phase = "reported" =>
    listener.log = Context(Len(listener.source), listener.line, listener.column)

\* what does hold: the same from line five on and in sources short enough for
\* the negative start of the slice to fall before the first line; the marker
\* and the lines after it are right throughout
C25_ContextFromLineFive ==
  listener.phase = "reported" =>
    LET n == Len(listener.source)
        l == listener.line
        want == Context(n, l, listener.column)
        tail == Len(want) - Min(l, pre)
    IN /\ (l >= pre \/ n + l <= pre) => listener.log = want
       /\ Len(listener.log) >= tail
       /\ SubSeq(listener.log, Len(listener.log) - tail + 1, Len(listener.log))
            = SubSeq(want, Len(want) - tail + 1, Len(want))
       /\ \A k \in 1..(Len(listener.log) - tail) :
            listener.log[k].level = "info" /\ listener.log[k].text \in 1..l

\* an error at line 2 of a source of six lines has been reported
C25_Witness ==
  /\ listener.phase = "reported"
  /\ Len(listener.source) = 6
  /\ listener.line = 2

\* how often an entry occurs in an output
Occurrences(out, e) == Cardinality({k \in 1..Len(out) : out[k] = e})

\* C26: of the hidden tokens before DEFINE only the first block comment with a
\* McDoc tag is consumed, and the canonical header is written in its place;
\* every other hidden token before DEFINE is written exactly once
C26_OnlyMcDocConsumed ==
  header.phase = "flushed" =>
    /\ Occurrences(header.out, Canonical) = 1
    /\ \A i \in 1..Len(header.hidden) :
         Occurrences(header.out, Emitted(i - 1))
           = IF i - 1 = McDocToken(header.hidden, 0 - 1) THEN 0 ELSE 1

\* what does hold: the McDoc comment and every hidden token before it are
\* dropped, the tokens after it are written once each, in order
C26_TokensAfterMcDoc ==
  header.phase = "flushed" =>
    LET tok == McDocToken(header.hidden, 0 - 1)
    IN header.out = <<Canonical>>
         \o [k \in 1..(Len(header.hidden) - tok - 1) |-> Emitted(tok + k)]

\* a plain comment stands before the McDoc header, and both have been handled
C26_Witness ==
  /\ header.phase = "flushed"
  /\ Len(header.hidden) = 2
  /\ ~IsMcDoc(header.hidden[1])
  /\ IsMcDoc(header.hidden[2])

\* C27: a Comp the cache returns for a path, from the store or from the
\* sidecar, was parsed from the content on disk that carries the mtime recorded
\* with it, never from an override text; where no two contents of a file share
\* an mtime, the entry for the file's mtime is the Comp of the file's content
C27_CacheHoldsDiskContent ==
  /\ \A p \in Paths :
       (store[p].present /\ fs[p].exists /\ store[p].mtime = fs[p].mtime)
         => store[p].comp = Comp(fs[p].content)
  /\ (op = "get_component" /\ result \in {"memory", "sidecar"})
       => got.comp = Comp(fs[got.path].content)

\* the cache has handed out, as a memory hit and with no override set, a Comp
\* of a text the file does not hold
C27_Witness ==
  /\ op = "get_component" /\ result = "memory"
  /\ \A name \in CompNames : overrides[name] = NoText
  /\ got.comp # Comp(fs[got.path].content)

\* the pairs a group is to hold: the instances of the list that carry the
\* group, each with its index, in list order
ExpectedGroup(comps, g) ==
  LET idxs == GroupMembers(comps, g)
  IN [k \in 1..Len(idxs) |-> Member(idxs[k], At(comps, idxs[k]).name)]

\* C28: once determine_groups has run, and after any later change of the
\* component list or second determine_groups, Instr.groups holds for each
\* group exactly the instances of the list that carry it, each with its index
\* in the list, in list order and once
C28_GroupsFollowComponents ==
  groups.determined > 0 =>
    \A g \in GroupNames : groups.members[g] = ExpectedGroup(components, g)

\* what does hold: the first determine_groups of an instrument leaves
\* Instr.groups as the claim says
C28_FirstDetermineGroups ==
  [][(op' = "determine_groups" /\ groups.determined = 0) =>
       \A g \in GroupNames : groups'.members[g] = ExpectedGroup(components', g)]_vars

\* a grouped instance was made after the groups were determined
C28_Witness ==
  /\ groups.determined > 0
  /\ op = "make_instance" /\ result = "ok"
  /\ components[Len(components)].group # None

\* every jump that designates a component of the list holds its index
TargetsResolved(comps) ==
  \A i \in 0..(Len(comps) - 1) :
    \A k \in 1..Len(At(comps, i).jump) :
      LET jump == At(comps, i).jump[k]
          d    == Designated(comps, i, jump)
      IN InRange(comps, d) => jump.absolute_target = d

\* C29: after set_jump_absolute_targets on any instrument, one copied or split
\* from a resolved instrument included, every jump holds the index of the
\* component it designates; translate resolves before it reads the targets,
\* so the components it marks as not to skip are those that jump or are
\* designated by a jump (where every jump designates a component)
C29_TargetsDesignate ==
  /\ (op \in {"set_jump_absolute_targets", "translate"} /\ result = "ok")
       => TargetsResolved(components)
  /\ (op = "translate" /\ result = "ok"
        /\ \A i \in 0..(Len(components) - 1) :
             \A k \in 1..Len(At(components, i).jump) :
               InRange(components, Designated(components, i, At(components, i).jump[k])))
       => \A t \in 0..(Len(components) - 1) :
         At(ok_to_skip, t) =
           (/\ can_skip(At(components, t))
            /\ ~\E i \in 0..(Len(components) - 1) :
                  \E k \in 1..Len(At(components, i).jump) :
                    Designated(components, i, At(components, i).jump[k]) = t)

\* what does hold: resolving an instrument none of whose jumps holds a target
\* yet gives every jump the index of the component it designates
C29_FirstResolution ==
  [][(op' \in {"set_jump_absolute_targets", "translate"} /\ result' = "ok"
        /\ \A i \in 1..Len(components) : \A k \in 1..Len(components[i].jump) :
             components[i].jump[k].absolute_target = 0 - 1)
       => TargetsResolved(components')]_vars

\* a copy of a resolved instrument has been resolved again, and one of its
\* jumps designates a component of the copy
C29_Witness ==
  /\ op = "set_jump_absolute_targets" /\ result = "ok"
  /\ \E i \in 0..(Len(components) - 1) :
       /\ At(components, i).jump # <<>>
       /\ Designated(components, i, At(components, i).jump[1]) \in 0..(Len(components) - 1)
       /\ At(components, i).jump[1].absolute_target
            # Designated(components, i, At(components, i).jump[1])


\* C30: after any sequence of set_parameter calls the parameters of an
\* Instance hold at most one entry per name; a call for a name already set
\* keeps the first value when it is allowed to repeat and not to overwrite,
\* and puts the new value in place of the old when it overwrites; a call that
\* raises leaves the parameters as they were
C30_OneEntryPerName ==
  /\ [](UniqueParameters(instance.parameters))
  /\ [][op' = "set_parameter" =>
          /\ result' = "RuntimeError" => instance'.parameters = instance.parameters
          /\ (result' = "ok" /\ parameter_name_present(instance.parameters, got'.path)) =>
               \/ instance'.parameters = instance.parameters
               \/ /\ Without(instance'.parameters, got'.path)
                       = Without(instance.parameters, got'.path)
                  /\ Len(instance'.parameters) = Len(instance.parameters)]_vars

\* what does hold: a name is never set for an unknown parameter or to a value
\* that is not compatible, and the first call for a name sets it
C30_FirstCallSets ==
  /\ [](\A i \in 1..Len(instance.parameters) :
          /\ instance.parameters[i].name \in {"x", "y"}
          /\ compatible_value(instance.parameters[i].value))
  /\ [][(op' = "set_parameter" /\ result' = "ok"
           /\ ~parameter_name_present(instance.parameters, got'.path)) =>
          /\ Len(instance'.parameters) = Len(instance.parameters) + 1
          /\ instance'.parameters[Len(instance'.parameters)].name = got'.path]_vars

\* a name was set twice, the second time allowed to repeat
C30_Witness ==
  /\ op = "set_parameter" /\ result = "ok"
  /\ Cardinality({i \in 1..Len(instance.parameters) :
                    instance.parameters[i].name = got.path}) = 2
====
